---- MODULE Spec2Model ----
(***************************************************************************)
(* Iowa election results ingestion: the flat-sheet column resolver and     *)
(* race classifier (iowa_election_processor.py), the flat parser, the      *)
(* positional county merge with its verification pass, the key-based       *)
(* county merge (team_a/process_iowa_election_data.py) and the statewide   *)
(* share computation of the dashboard export (example_us_senate.py).       *)
(*                                                                         *)
(* Text that the code inspects character by character (column headers,     *)
(* race titles) is a sequence of one-character strings, so that strip(),   *)
(* lower(), endswith(), slicing and the substring test are computed as     *)
(* Python computes them.  Text that the code only compares (candidate      *)
(* names, party names) is an ordinary TLA+ string.                         *)
(***************************************************************************)
EXTENDS Integers, Sequences, FiniteSets, TLC

VARIABLES
    pc,               \* position of the running script
    header_row,       \* get_columns_to_keep: its argument
    columns_to_keep,  \* get_columns_to_keep: its result, <<index, name>> pairs
    race_name,        \* is_race_we_want / filter_races: the race title tested
    race_kept,        \* <<is_race_we_want(race_name), filter_races keeps it>>
    source_sheet,     \* process_election_file: rows of the sheet read
    new_sheet,        \* process_election_file: rows of the sheet written
    input_dir_exists, \* main: whether the input directory is there
    county_files,     \* the files the glob pattern matches, sorted
    file_index,       \* how many of county_files the file loop has handled
    base_rows,        \* positional merge: keys of the first file's rows
    merged_headers,   \* positional merge: header of the merged table
    merged_data,      \* positional merge: rows of the merged table
    total_precincts,  \* positional merge: precinct columns counted
    problems_found,   \* positional merge: findings of the run, in order
    report,           \* positional merge: the findings the report displays
    all_data,         \* key-based merge: the per-county tables parsed
    merged_df,        \* key-based merge: the merged table
    saved_file,       \* what the run wrote, or NotSaved
    precinct_rshare,  \* dashboard export: the entry of each precinct
    results_district, \* dashboard export: the 'statewide' candidate list
    workbook,         \* process_2018_2020_file: the county and sheets of the file
    data_sheets,      \* multi-sheet parser: the sheets to parse, in order
    sheet_index,      \* multi-sheet parser: how many of data_sheets are handled
    precinct_names,   \* multi-sheet parser: precinct labels of the sheet
    precinct_rows,    \* multi-sheet parser: row indices of those labels
    candidates,       \* multi-sheet parser: candidates recorded for the sheet
    candidate_cols,   \* multi-sheet parser: the vote column of each candidate
    all_races,        \* multi-sheet parser: the records collected so far
    pivot_df          \* multi-sheet parser: what the function returns

colsVars == <<header_row, columns_to_keep>>
raceVars == <<race_name, race_kept>>
flatVars == <<source_sheet, new_sheet>>
inputVars == <<input_dir_exists, county_files>>
posVars == <<base_rows, merged_headers, merged_data, total_precincts,
             problems_found>>
reportVars == <<report>>
keyVars == <<all_data, merged_df>>
exportVars == <<precinct_rshare, results_district>>
sheetVars == <<workbook, data_sheets, sheet_index, precinct_names,
               precinct_rows, candidates, candidate_cols, all_races, pivot_df>>

vars == <<pc, colsVars, raceVars, flatVars, inputVars, file_index, posVars,
          reportVars, keyVars, saved_file, exportVars,
          sheetVars>>

----------------------------------------------------------------------------
(* Bounds of the model.                                                     *)

MaxHeaderCols == 2    \* columns of a header row given to get_columns_to_keep

----------------------------------------------------------------------------
(* Python values that are not text.                                         *)

\* A cell that holds no value: openpyxl reads an empty cell as None.
NoneStr == <<"None">>
\* A cell that holds a number where text is expected.
NumStr == <<"int">>

IsStr(v) == v # NoneStr /\ v # NumStr

----------------------------------------------------------------------------
(* Python string operations on sequences of characters.                     *)

UpperChars == <<"A","B","C","D","E","F","G","H","I","J","K","L","M",
                "N","O","P","Q","R","S","T","U","V","W","X","Y","Z">>
LowerChars == <<"a","b","c","d","e","f","g","h","i","j","k","l","m",
                "n","o","p","q","r","s","t","u","v","w","x","y","z">>

LowerChar(c) ==
    IF \E i \in 1..26 : UpperChars[i] = c
    THEN LowerChars[CHOOSE i \in 1..26 : UpperChars[i] = c]
    ELSE c

UpperChar(c) ==
    IF \E i \in 1..26 : LowerChars[i] = c
    THEN UpperChars[CHOOSE i \in 1..26 : LowerChars[i] = c]
    ELSE c

\* str.lower()
Lower(s) == [i \in 1..Len(s) |-> LowerChar(s[i])]

\* str.upper(), used only to vary the case of the titles tested
Upper(s) == [i \in 1..Len(s) |-> UpperChar(s[i])]

\* sub in s
Contains(sub, s) ==
    \E i \in 0..(Len(s) - Len(sub)) :
        \A j \in 1..Len(sub) : s[i + j] = sub[j]

\* s.endswith(suf)
EndsWith(s, suf) ==
    /\ Len(s) >= Len(suf)
    /\ \A j \in 1..Len(suf) : s[Len(s) - Len(suf) + j] = suf[j]

\* s.strip(): leading and trailing blanks removed
Strip(s) ==
    LET nonblank == {i \in 1..Len(s) : s[i] # " "}
    IN  IF nonblank = {} THEN <<>>
        ELSE LET lo == CHOOSE i \in nonblank : \A j \in nonblank : i <= j
                 hi == CHOOSE i \in nonblank : \A j \in nonblank : j <= i
             IN  SubSeq(s, lo, hi)

\* s[:-n]
DropLast(s, n) == IF Len(s) <= n THEN <<>> ELSE SubSeq(s, 1, Len(s) - n)

----------------------------------------------------------------------------
(* Text literals of the source.                                             *)

sRaceTitle == <<"R","a","c","e","T","i","t","l","e">>
sCandidateName == <<"C","a","n","d","i","d","a","t","e","N","a","m","e">>
sPoliticalPartyName ==
    <<"P","o","l","i","t","i","c","a","l","P","a","r","t","y","N","a","m","e">>
sTotalSuffix == <<" ","T","o","t","a","l">>
sHyphen == <<"-">>

metadata_columns == {sRaceTitle, sCandidateName, sPoliticalPartyName}

\* The length of " Total", which the code writes as the literal 6.
SuffixLen == 6

----------------------------------------------------------------------------
(* The parts of the state a script does not touch.                          *)

NotSaved == <<"not saved">>
NoReport == [shown |-> <<>>, more |-> 0]

ColsIdle == header_row = <<>> /\ columns_to_keep = <<>>
RaceIdle == race_name = NoneStr /\ race_kept = <<FALSE, FALSE>>
FlatIdle == source_sheet = <<>> /\ new_sheet = <<>>
NoWorkbook == [county |-> <<>>, sheets |-> <<>>]
NotReturned == <<"not returned">>
SheetIdle ==
    /\ workbook = NoWorkbook
    /\ data_sheets = <<>>
    /\ sheet_index = 0
    /\ precinct_names = <<>>
    /\ precinct_rows = <<>>
    /\ candidates = <<>>
    /\ candidate_cols = <<>>
    /\ all_races = <<>>
    /\ pivot_df = NotReturned
MergeIdle ==
    /\ input_dir_exists = TRUE
    /\ county_files = <<>>
    /\ file_index = 0
    /\ base_rows = <<>>
    /\ merged_headers = <<>>
    /\ merged_data = <<>>
    /\ total_precincts = 0
    /\ problems_found = <<>>
    /\ report = NoReport
    /\ all_data = <<>>
    /\ merged_df = <<>>
    /\ saved_file = NotSaved
    /\ precinct_rshare = {}
    /\ results_district = <<>>

----------------------------------------------------------------------------
(* STEP 2 of iowa_election_processor.py: get_columns_to_keep.               *)

\* Header cells of the flat sheets tried: decorated precinct totals, county
\* aggregates, breakdown columns, metadata names, an empty cell and a number.
hA == <<"A">>
hA1 == <<"A","-","1">>
hBlank == <<" ">>
hAbsentee == <<" ","A","b","s">>
hTotalNoBlank == <<"T","o","t","a","l">>

HeaderPool ==
    {pad \o nm \o suf :
        pad \in {<<>>, hBlank},
        nm \in {hA, hA1, sHyphen},
        suf \in {sTotalSuffix, sTotalSuffix \o hBlank, hTotalNoBlank, hAbsentee}}
    \cup {sRaceTitle, hBlank \o sCandidateName, sPoliticalPartyName,
          sTotalSuffix, <<>>, NoneStr, NumStr}

HeaderRows(n) == [1..n -> HeaderPool]

\* line 116, with the hyphen test forgotten: every " Total" column is kept
IsPrecinctTotal_AnyTotal(header_clean) ==
    EndsWith(header_clean, sTotalSuffix)

\* lines 109-116: a " Total" column whose recovered name has a hyphen
IsPrecinctTotal(header_clean) ==
    /\ EndsWith(header_clean, sTotalSuffix)
    /\ Contains(sHyphen, DropLast(header_clean, SuffixLen))

\* The for loop of lines 95-117 from column_index (0-based, as enumerate
\* counts) to the end of the row; acc is columns_to_keep so far.
RECURSIVE columns_loop(_, _, _)
columns_loop(row, column_index, acc) ==
    IF column_index >= Len(row) THEN acc
    ELSE LET header == row[column_index + 1]
             header_clean == Strip(header)
         IN  IF header = NoneStr
             THEN columns_loop(row, column_index + 1, acc)
             ELSE IF header_clean \in metadata_columns
             THEN columns_loop(row, column_index + 1,
                               Append(acc, <<column_index, header_clean>>))
             ELSE IF IsPrecinctTotal(header_clean)
             THEN columns_loop(row, column_index + 1,
                               Append(acc, <<column_index,
                                             DropLast(header_clean, SuffixLen)>>))
             ELSE columns_loop(row, column_index + 1, acc)

get_columns_to_keep(row) == columns_loop(row, 0, <<>>)

\* header.strip() on a cell that is neither None nor text raises
\* AttributeError: the function returns nothing.
StripRaises(row) == \E i \in 1..Len(row) : row[i] = NumStr

ResolveColumns ==
    /\ pc = "cols_start"
    /\ IF StripRaises(header_row)
       THEN /\ pc' = "cols_raised"
            /\ UNCHANGED columns_to_keep
       ELSE /\ pc' = "cols_done"
            /\ columns_to_keep' = get_columns_to_keep(header_row)
    /\ UNCHANGED <<sheetVars, header_row, raceVars, flatVars, inputVars, file_index,
                   posVars, keyVars, saved_file,
                   exportVars, reportVars>>

InitCols ==
    /\ pc = "cols_start"
    /\ \E n \in 0..MaxHeaderCols : header_row \in HeaderRows(n)
    /\ columns_to_keep = <<>>
    /\ RaceIdle /\ FlatIdle /\ MergeIdle /\ SheetIdle

NextCols == ResolveColumns

SpecCols == InitCols /\ [][NextCols]_vars

\* C1: get_columns_to_keep never returns the name of a bare county aggregate
\* (a " Total" column whose recovered name has no hyphen), never drops a
\* column whose trimmed name ends in " Total" and whose recovered name has a
\* hyphen, and returns the kept columns in source column order.
C1_ResolverKeepsPrecinctTotals ==
    pc = "cols_done" =>
        LET n == Len(header_row)
            trimmed(i) == Strip(header_row[i])
            recovered(i) == DropLast(trimmed(i), 6)
            isTotal(i) == /\ header_row[i] # NoneStr
                          /\ EndsWith(trimmed(i), sTotalSuffix)
            kept(i) == \E k \in 1..Len(columns_to_keep) :
                            columns_to_keep[k][1] = i - 1
        IN  /\ \A i \in 1..n :
                  isTotal(i) /\ ~Contains(sHyphen, recovered(i)) => ~kept(i)
            /\ \A i \in 1..n :
                  isTotal(i) /\ Contains(sHyphen, recovered(i)) =>
                      \E k \in 1..Len(columns_to_keep) :
                          columns_to_keep[k] = <<i - 1, recovered(i)>>
            /\ \A k \in 1..Len(columns_to_keep) :
                  /\ columns_to_keep[k][1] \in 0..(n - 1)
                  /\ k > 1 => columns_to_keep[k - 1][1] < columns_to_keep[k][1]

\* A resolved row that holds a bare county aggregate, which is dropped, after
\* a padded precinct total, which is kept under its recovered name.
C1_Witness ==
    /\ pc = "cols_done"
    /\ Len(header_row) = 2
    /\ header_row[1] = hBlank \o hA1 \o sTotalSuffix \o hBlank
    /\ header_row[2] = hA \o sTotalSuffix
    /\ columns_to_keep = << <<0, hA1>> >>

----------------------------------------------------------------------------
(* STEP 1 of iowa_election_processor.py: is_race_we_want; and filter_races  *)
(* of team_a/process_iowa_election_data.py.                                 *)

kPresident == <<"p","r","e","s","i","d","e","n","t">>
kGovernor == <<"g","o","v","e","r","n","o","r">>
kUSSenatorDots == <<"u",".","s","."," ","s","e","n","a","t","o","r">>
kUSSenator == <<"u","s"," ","s","e","n","a","t","o","r">>
kUSRepDots == <<"u",".","s","."," ","r","e","p">>
kUSRep == <<"u","s"," ","r","e","p">>
kStateSenator == <<"s","t","a","t","e"," ","s","e","n","a","t","o","r">>
kStateRep == <<"s","t","a","t","e"," ","r","e","p">>

races_to_keep ==
    <<kPresident, kGovernor, kUSSenatorDots, kUSSenator, kUSRepDots, kUSRep,
      kStateSenator, kStateRep>>

\* line 43 forgotten: the keywords are looked up in the title as written
is_race_we_want_CaseSensitive(race) ==
    IF race = NoneStr THEN FALSE
    ELSE IF ~IsStr(race) THEN FALSE
    ELSE \E i \in 1..Len(races_to_keep) : Contains(races_to_keep[i], race)

is_race_we_want(race) ==
    IF race = NoneStr THEN FALSE
    ELSE IF ~IsStr(race) THEN FALSE
    ELSE LET race_lower == Lower(race)
         IN  \E i \in 1..Len(races_to_keep) :
                 Contains(races_to_keep[i], race_lower)

pPresident == <<"P","r","e","s","i","d","e","n","t">>
pUSSenator == <<"U","S"," ","S","e","n","a","t","o","r">>
pUnitedStatesSenator ==
    <<"U","n","i","t","e","d"," ","S","t","a","t","e","s"," ",
      "S","e","n","a","t","o","r">>
pUSRep == <<"U","S"," ","R","e","p">>
pUnitedStatesRepresentative ==
    <<"U","n","i","t","e","d"," ","S","t","a","t","e","s"," ",
      "R","e","p","r","e","s","e","n","t","a","t","i","v","e">>
pStateRep == <<"S","t","a","t","e"," ","R","e","p">>
pGovernor == <<"G","o","v","e","r","n","o","r">>

race_patterns ==
    <<pPresident, pUSSenator, pUnitedStatesSenator, pUSRep,
      pUnitedStatesRepresentative, pStateRep, pGovernor>>

\* One element of the mask of filter_races: the patterns, none of which holds
\* a regular-expression metacharacter, are searched for without regard to
\* case; a missing or non-text title gives False (na=False).
filter_races_keeps(race) ==
    /\ IsStr(race)
    /\ \E i \in 1..Len(race_patterns) :
           Contains(Lower(race_patterns[i]), Lower(race))

\* Race titles tried: each office name as the spec and the sources spell it,
\* with the spellings of other years, near misses and unrelated offices, in
\* three letter cases, alone or embedded in a longer title.
tUSSenatorDots == <<"U",".","S","."," ","S","e","n","a","t","o","r">>
tUSRepDots == <<"U",".","S","."," ","R","e","p",".">>
tStateRepDot == <<"S","t","a","t","e"," ","R","e","p",".">>
tStateSenator == <<"S","t","a","t","e"," ","S","e","n","a","t","o","r">>
tUSRepresentativeDots ==
    <<"U",".","S","."," ","R","e","p","r","e","s","e","n","t","a","t","i","v","e">>
tStateRepresentative ==
    <<"S","t","a","t","e"," ","R","e","p","r","e","s","e","n","t","a","t","i","v","e">>
tJudge == <<"J","u","d","g","e">>
tSenator == <<"S","e","n","a","t","o","r">>
tUSSenatorNoSpace == <<"U",".","S",".","S","e","n","a","t","o","r">>
tSheriff == <<"C","o","u","n","t","y"," ","S","h","e","r","i","f","f">>
tFor == <<"F","o","r"," ">>
tDist == <<" ","D","i","s","t","."," ","1">>

TitleCores ==
    {pPresident, pGovernor, tUSSenatorDots, pUSSenator, pUnitedStatesSenator,
     tUSRepresentativeDots, tUSRepDots, pUSRep, pUnitedStatesRepresentative,
     tStateSenator, tStateRepresentative, tStateRepDot,
     tJudge, tSenator, tUSSenatorNoSpace, tSheriff, <<>>}

TitlePool ==
    {pre \o core \o suf :
        pre \in {<<>>, tFor}, core \in TitleCores, suf \in {<<>>, tDist}}

RaceTitles ==
    TitlePool \cup {Upper(t) : t \in TitlePool} \cup {Lower(t) : t \in TitlePool}
    \cup {NoneStr, NumStr}

ClassifyRace ==
    /\ pc = "race_start"
    /\ pc' = "race_done"
    /\ race_kept' = <<is_race_we_want(race_name), filter_races_keeps(race_name)>>
    /\ UNCHANGED <<sheetVars, race_name, colsVars, flatVars, inputVars, file_index,
                   posVars, keyVars, saved_file,
                   exportVars, reportVars>>

InitRace ==
    /\ pc = "race_start"
    /\ race_name \in RaceTitles
    /\ race_kept = <<FALSE, FALSE>>
    /\ ColsIdle /\ FlatIdle /\ MergeIdle /\ SheetIdle

NextRace == ClassifyRace

SpecRace == InitRace /\ [][NextRace]_vars

\* The office keywords as the claim lists them.
kUSRepresentativeDots ==
    <<"u",".","s","."," ","r","e","p","r","e","s","e","n","t","a","t","i","v","e">>
kStateRepresentative ==
    <<"s","t","a","t","e"," ","r","e","p","r","e","s","e","n","t","a","t","i","v","e">>

TrackedKeywords ==
    {kPresident, kGovernor, kUSSenatorDots, kUSRepresentativeDots,
     kStateSenator, kStateRepresentative}

\* The shortened spellings that the classifier accepts besides them.
ShortKeywords == {kUSSenator, kUSRepDots, kUSRep, kStateRep}

HasKeyword(title, keywords) ==
    /\ IsStr(title)
    /\ \E k \in keywords : Contains(k, Lower(title))

\* C2 as stated: is_race_we_want is true for every title that contains, in
\* any letter case and anywhere in it, one of president, governor,
\* U.S. senator, U.S. representative, state senator, state representative,
\* and false for an empty, absent or non-text title and for a title that
\* contains none of these keywords.
C2_Original ==
    pc = "race_done" =>
        race_kept[1] = HasKeyword(race_name, TrackedKeywords)

\* C2 as amended: is_race_we_want is true for every title that contains, in
\* any letter case and anywhere in it, one of the six keywords or one of the
\* shortened spellings us senator, u.s. rep, us rep, state rep; it is false
\* for an empty, absent or non-text title and for a title that contains none
\* of these.
C2_ClassifierKeywords ==
    pc = "race_done" =>
        /\ HasKeyword(race_name, TrackedKeywords) => race_kept[1] = TRUE
        /\ HasKeyword(race_name, ShortKeywords) => race_kept[1] = TRUE
        /\ ~HasKeyword(race_name, TrackedKeywords \cup ShortKeywords) =>
               race_kept[1] = FALSE

\* An upper-case title with a keyword embedded in it has been classified as
\* kept.
C2_Witness ==
    /\ pc = "race_done"
    /\ race_name = Upper(tFor \o tStateSenator \o tDist)
    /\ race_kept[1] = TRUE

----------------------------------------------------------------------------
(* STEP 3 of iowa_election_processor.py: process_election_file.             *)

\* The value openpyxl and pandas give for a cell that holds nothing (None,
\* NaN).  Vote counts are never negative, so -1 stands for it among the
\* integer cells.
Missing == -1

MaxFlatRows == 2      \* data rows of a flat sheet

hDigits == <<"1","2","3","4","5","6","7","8","9">>

\* " A-j Total", the decorated header of precinct j, and the breakdown and
\* county aggregate columns that come with it in the flat sheets.
FlatTotalHeader(j) == hBlank \o hA \o sHyphen \o <<hDigits[j]>> \o sTotalSuffix
FlatHeaderRows ==
    {<<sRaceTitle, sCandidateName, sPoliticalPartyName, FlatTotalHeader(1)>>,
     <<sRaceTitle, sCandidateName, sPoliticalPartyName,
       hA \o sHyphen \o <<hDigits[1]>> \o hAbsentee, FlatTotalHeader(1),
       FlatTotalHeader(2), hA \o sTotalSuffix>>}

FlatCandidates == <<"R", "D", "L", "W">>
FlatCells == {Missing, 0, 7}

\* The data rows that can follow a header: race title, candidate, party and
\* one cell per further column; the cell of a breakdown or aggregate column
\* is fixed, the cell of a precinct total is any of FlatCells.
FlatDataRow(header, i, title, cells) ==
    [c \in 1..Len(header) |->
        IF c = 1 THEN title
        ELSE IF c = 2 THEN FlatCandidates[i]
        ELSE IF c = 3 THEN "Party"
        ELSE IF IsPrecinctTotal(Strip(header[c])) THEN cells[c]
        ELSE 1]

FlatPrecinctCols(header) ==
    {c \in 4..Len(header) : IsPrecinctTotal(Strip(header[c]))}

\* The sheets of n data rows under a header
FlatSheets(header, n) ==
    {<<header>> \o [i \in 1..n |-> FlatDataRow(header, i, titles[i], cells[i])] :
        titles \in [1..n -> {tUSSenatorDots, tJudge, NoneStr}],
        cells \in [1..n -> [FlatPrecinctCols(header) -> FlatCells]]}

\* line 175: the cells of the kept columns of one row, as read
select_columns(row, keep) == [k \in 1..Len(keep) |-> row[keep[k][1] + 1]]

\* lines 167-179: the rows appended to the new sheet from data row i on
RECURSIVE flat_rows_loop(_, _, _, _)
flat_rows_loop(sheet, keep, i, acc) ==
    IF i > Len(sheet) THEN acc
    ELSE IF is_race_we_want(sheet[i][1])
         THEN flat_rows_loop(sheet, keep, i + 1,
                             Append(acc, select_columns(sheet[i], keep)))
         ELSE flat_rows_loop(sheet, keep, i + 1, acc)

ProcessElectionFile ==
    /\ pc = "flat_start"
    /\ LET keep == get_columns_to_keep(source_sheet[1])
           new_headers == [k \in 1..Len(keep) |-> keep[k][2]]
       IN  new_sheet' = flat_rows_loop(source_sheet, keep, 2, <<new_headers>>)
    /\ pc' = "flat_done"
    /\ UNCHANGED <<sheetVars, source_sheet, colsVars, raceVars, inputVars, file_index,
                   posVars, keyVars, saved_file,
                   exportVars, reportVars>>

InitFlat ==
    /\ pc = "flat_start"
    /\ \E header \in FlatHeaderRows, n \in 0..MaxFlatRows :
           source_sheet \in FlatSheets(header, n)
    /\ new_sheet = <<>>
    /\ ColsIdle /\ RaceIdle /\ MergeIdle /\ SheetIdle

NextFlat == ProcessElectionFile

SpecFlat == InitFlat /\ [][NextFlat]_vars

\* C3: parsing a flat sheet with K kept precinct columns and N data rows, all
\* of tracked races, yields exactly K x N vote values, each equal to the
\* source cell at the same row and precinct column, and zero where the
\* source cell is blank.
C3_FlatParseValues ==
    (/\ pc = "flat_done"
     /\ \A i \in 2..Len(source_sheet) : is_race_we_want(source_sheet[i][1]))
    =>
    LET header == source_sheet[1]
        precinct_cols == {c \in 1..Len(header) : IsPrecinctTotal(Strip(header[c]))}
        position(c) == 3 + Cardinality({d \in precinct_cols : d <= c})
    IN  /\ Len(new_sheet) = Len(source_sheet)
        /\ \A i \in 2..Len(source_sheet) :
              /\ Len(new_sheet[i]) = 3 + Cardinality(precinct_cols)
              /\ \A c \in precinct_cols :
                    new_sheet[i][position(c)] =
                        IF source_sheet[i][c] = Missing THEN 0
                        ELSE source_sheet[i][c]

----------------------------------------------------------------------------
(* The county files of a merge run.                                         *)

MaxFiles == 2         \* county files matched by the glob pattern
MaxRows == 2          \* candidate rows on the ballot of the year
MaxPrecincts == 5     \* precinct columns of one county file

cAdair == <<"A","d","a","i","r">>
cPolk == <<"P","o","l","k">>
cStory == <<"S","t","o","r","y">>
cLinn == <<"L","i","n","n">>
CountyNames == <<cAdair, cPolk, cStory, cLinn>>

sBlankCandidateName == hBlank \o sCandidateName
sAbsentee == <<" ","A","b","s","e","n","t","e","e">>

tPresident == <<"P","r","e","s","i","d","e","n","t">>
tStateRep1 == tStateRepDot \o <<" ","1">>

BallotCandidates == << <<"R">>, <<"D">>, <<"L">>, <<"W">>, <<"X">> >>

\* The race of ballot row b: every row the U.S. Senate race, every row a
\* district race, or statewide and district races in turn.
BallotSchemes == {"senate", "district", "mixed"}
BallotTitle(scheme, b) ==
    IF scheme = "senate" THEN tUSSenatorDots
    ELSE IF scheme = "district" THEN tStateRep1
    ELSE IF b % 2 = 1 THEN tPresident ELSE tStateRep1

\* The rows of a file, as ballot rows: in ballot order, with the first two
\* exchanged, with the last row missing, or with one row more.
RowOrders == {"same", "swapped", "short", "long"}
RowIds(order) ==
    IF order = "same" THEN [i \in 1..MaxRows |-> i]
    ELSE IF order = "swapped"
         THEN [i \in 1..MaxRows |-> IF i = 1 THEN 2 ELSE IF i = 2 THEN 1 ELSE i]
    ELSE IF order = "short" THEN [i \in 1..(MaxRows - 1) |-> i]
    ELSE [i \in 1..(MaxRows + 1) |-> i]

\* The votes of file f for ballot row b in its precinct column c, by the
\* pattern of the file: votes in every precinct; votes in the first precinct
\* only; no votes (blank and zero cells in turn); odd ballot rows with votes
\* in the first precinct of the first file only and even ballot rows with
\* votes in every precinct; or the two-precinct Senate race R 600/300,
\* D 400/700 with one precinct in each of the first two files.
Cell(f, pattern, b, c) ==
    LET full == 100 * f + 10 * b + c
        first == IF c = 1 THEN 100 * f + 10 * b + 1 ELSE 0
        empty == IF c % 2 = 1 THEN Missing ELSE 0
    IN  IF pattern = "full" THEN full
        ELSE IF pattern = "first" THEN first
        ELSE IF pattern = "empty" THEN empty
        ELSE IF pattern = "split"
             THEN (IF b % 2 = 0 THEN full ELSE IF f = 1 THEN first ELSE empty)
        ELSE IF c # 1 \/ b > 2 \/ f > 2 THEN 0
        ELSE IF f = 1 THEN (IF b = 1 THEN 600 ELSE 400)
        ELSE (IF b = 1 THEN 300 ELSE 700)

\* The vote pattern of each file of a run.
VoteSchemes == {"full", "split", "empty", "partial", "senate"}
VotePattern(votes, f) ==
    IF votes = "partial" THEN (IF f = 1 THEN "full" ELSE "first")
    ELSE votes

\* The county whose name the precinct columns of file f carry: its own, or,
\* when the files collide, the county of the first file.
HeaderCounty(f, collide) == IF collide THEN CountyNames[1] ELSE CountyNames[f]

PrecinctName(f, collide, c) ==
    HeaderCounty(f, collide) \o sHyphen \o <<hDigits[c]>>

\* A cleaned county file (*_2016_totals.xlsx): metadata columns and one
\* column per precinct; a colliding file pads its precinct headers.
CleanedSheet(f, scheme, np, collide, order, pattern) ==
    LET ids == RowIds(order)
        pad == IF collide /\ f > 1 THEN hBlank ELSE <<>>
        header == <<sRaceTitle, sCandidateName, sPoliticalPartyName>>
                  \o [c \in 1..np |-> pad \o PrecinctName(f, collide, c)]
        row(b) == <<BallotTitle(scheme, b), BallotCandidates[b], "Party">>
                  \o [c \in 1..np |-> Cell(f, pattern, b, c)]
    IN  <<header>> \o [i \in 1..Len(ids) |-> row(ids[i])]

\* A raw county file (*_2016.xlsx): race and candidate columns, then per
\* precinct a decorated total column (an absentee column before the first),
\* then the aggregate total of the county.
RawSheet(f, scheme, np, collide, order, pattern) ==
    LET ids == RowIds(order)
        votes(b, c) == Cell(f, pattern, b, c)
        count(v) == IF v = Missing THEN 0 ELSE v
        RECURSIVE sum(_, _)
        sum(b, c) == IF c = 0 THEN 0 ELSE count(votes(b, c)) + sum(b, c - 1)
        header == <<sRaceTitle, IF f % 2 = 1 THEN sBlankCandidateName
                                ELSE sCandidateName,
                    hBlank \o PrecinctName(f, collide, 1) \o sAbsentee>>
                  \o [c \in 1..np |->
                        hBlank \o PrecinctName(f, collide, c) \o sTotalSuffix]
                  \o <<HeaderCounty(f, collide) \o sTotalSuffix>>
        row(b) == <<BallotTitle(scheme, b), BallotCandidates[b], 0>>
                  \o [c \in 1..np |-> votes(b, c)]
                  \o <<sum(b, np)>>
    IN  <<header>> \o [i \in 1..Len(ids) |-> row(ids[i])]

CountyFile(f, sheet) == [name |-> CountyNames[f], sheet |-> sheet]

PrecinctCounts == {1, MaxPrecincts}

\* File f of a run, as the merge of the given kind reads it
SheetOf(kind, f, scheme, np, collide, order, pattern) ==
    IF kind = "cleaned"
    THEN CleanedSheet(f, scheme, np, collide, order, pattern)
    ELSE RawSheet(f, scheme, np, collide, order, pattern)

\* The county files a run finds are one of the lists tried.
FilesFound(kind) ==
    \E n \in 0..MaxFiles, scheme \in BallotSchemes, np \in PrecinctCounts,
       collide \in BOOLEAN, votes \in VoteSchemes :
        \E orders \in [1..n -> RowOrders] :
            county_files =
                [f \in 1..n |-> CountyFile(f,
                    SheetOf(kind, f, scheme, np, collide, orders[f],
                            VotePattern(votes, f)))]

----------------------------------------------------------------------------
(* STEP 4 of iowa_election_processor.py: merge_county_files, the positional *)
(* merge, with its verification pass.                                       *)

metadata_cols == {sRaceTitle, sCandidateName, sPoliticalPartyName}

\* The members of a set of positions, in increasing order
RECURSIVE Ascending(_)
Ascending(positions) ==
    IF positions = {} THEN <<>>
    ELSE LET lo == CHOOSE i \in positions : \A j \in positions : i <= j
         IN  <<lo>> \o Ascending(positions \ {lo})

\* lines 266-269: the 1-based positions of the precinct columns of a header
RECURSIVE precinct_indices_loop(_, _, _)
precinct_indices_loop(headers, i, acc) ==
    IF i > Len(headers) THEN acc
    ELSE LET h == headers[i]
         IN  IF h # NoneStr /\ h # <<>> /\ Strip(h) \notin metadata_cols
             THEN precinct_indices_loop(headers, i + 1, Append(acc, i))
             ELSE precinct_indices_loop(headers, i + 1, acc)

\* lines 264-268 with the first precinct column left out
precinct_indices_of_SkipFirst(headers) ==
    LET found == precinct_indices_loop(headers, 1, <<>>)
    IN  IF found = <<>> THEN found ELSE Tail(found)

precinct_indices_of(headers) == precinct_indices_loop(headers, 1, <<>>)

\* line 283 with the candidate left out of the comparison
row_mismatch_RaceOnly(key, expected) == key[1] # expected[1]

\* line 283
row_mismatch(key, expected) == key[1] # expected[1] \/ key[2] # expected[2]

\* lines 213-252: find the files; load the first as the base structure
MergeStart ==
    /\ pc = "merge_start"
    /\ IF Len(county_files) = 0
       THEN /\ pc' = "merge_nofiles"
            /\ UNCHANGED posVars
       ELSE LET first_ws == county_files[1].sheet
            IN  /\ base_rows' = [i \in 1..(Len(first_ws) - 1) |->
                                    <<first_ws[i + 1][1], first_ws[i + 1][2]>>]
                /\ merged_headers' = <<sRaceTitle, sCandidateName>>
                /\ merged_data' = [i \in 1..(Len(first_ws) - 1) |->
                                    <<first_ws[i + 1][1], first_ws[i + 1][2]>>]
                /\ total_precincts' = 0
                /\ problems_found' = <<>>
                /\ pc' = "merge_files"
    /\ UNCHANGED <<sheetVars, colsVars, raceVars, flatVars, inputVars, file_index,
                   keyVars, saved_file,
                   exportVars, reportVars>>

\* lines 276-293: the data rows of one file from row_index (0-based) on.
\* The result is <<merged_data, problems_found, crashed>>: extending a row
\* that merged_data does not have raises IndexError.
RECURSIVE add_rows_loop(_, _, _, _, _, _)
add_rows_loop(ws, county_name, indices, row_index, data, problems) ==
    IF row_index + 2 > Len(ws) THEN <<data, problems, FALSE>>
    ELSE LET row == ws[row_index + 2]
             key == <<row[1], row[2]>>
             problems2 ==
                 IF /\ row_index < Len(base_rows)
                    /\ row_mismatch(key, base_rows[row_index + 1])
                 THEN Append(problems, <<"Row mismatch", county_name,
                                         base_rows[row_index + 1], key>>)
                 ELSE problems
             precinct_votes == [k \in 1..Len(indices) |-> row[indices[k]]]
         IN  IF row_index >= Len(data)
             THEN <<data, problems2, TRUE>>
             ELSE add_rows_loop(ws, county_name, indices, row_index + 1,
                      [data EXCEPT ![row_index + 1] = @ \o precinct_votes],
                      problems2)

\* lines 254-295: one pass of the file loop
MergeAddFile ==
    /\ pc = "merge_files"
    /\ file_index < Len(county_files)
    /\ LET file == county_files[file_index + 1]
           headers == file.sheet[1]
           indices == precinct_indices_of(headers)
           done == add_rows_loop(file.sheet, file.name, indices, 0,
                                 merged_data, problems_found)
       IN  /\ merged_headers' = merged_headers \o
                   [k \in 1..Len(indices) |-> Strip(headers[indices[k]])]
           /\ total_precincts' = total_precincts + Len(indices)
           /\ merged_data' = done[1]
           /\ problems_found' = done[2]
           /\ IF done[3]
              THEN /\ pc' = "merge_crashed"
                   /\ UNCHANGED file_index
              ELSE /\ file_index' = file_index + 1
                   /\ pc' = IF file_index + 1 = Len(county_files)
                            THEN "merge_verify" ELSE "merge_files"
    /\ UNCHANGED <<sheetVars, base_rows, colsVars, raceVars, flatVars, inputVars, keyVars,
                   saved_file,
                   exportVars, reportVars>>

statewide_races == <<kPresident, kGovernor, kUSSenatorDots, kUSSenator>>

\* line 318
race_title_of(row) ==
    IF row[1] # NoneStr /\ row[1] # <<>> THEN Lower(row[1]) ELSE <<>>

\* line 332
is_statewide(race_title) ==
    \E k \in 1..Len(statewide_races) : Contains(statewide_races[k], race_title)

\* lines 323-329: the precinct cells of a row that hold a positive count
precincts_with_votes(row) ==
    Cardinality({c \in 3..Len(row) : row[c] # Missing /\ row[c] # 0 /\ row[c] > 0})

\* line 339 with the length of the row in the place of total_precincts
IsSuspicious_RowLength(row, total) ==
    /\ ~is_statewide(race_title_of(row))
    /\ precincts_with_votes(row) = Len(row)

\* line 339: the row of a district race with votes in all precincts
IsSuspicious(row, total) ==
    /\ ~is_statewide(race_title_of(row))
    /\ precincts_with_votes(row) = total

\* lines 304-308 with a loop that leaves out the last row
RECURSIVE shape_loop_SkipLast(_, _, _, _)
shape_loop_SkipLast(data, expected_cols, i, problems) ==
    IF i >= Len(data) THEN problems
    ELSE shape_loop_SkipLast(data, expected_cols, i + 1,
             IF Len(data[i]) # expected_cols
             THEN Append(problems, <<"Row columns", i + 1, Len(data[i]),
                                     expected_cols>>)
             ELSE problems)

\* lines 304-308: Check 1, from row i (1-based) on
RECURSIVE shape_loop(_, _, _, _)
shape_loop(data, expected_cols, i, problems) ==
    IF i > Len(data) THEN problems
    ELSE shape_loop(data, expected_cols, i + 1,
             IF Len(data[i]) # expected_cols
             THEN Append(problems, <<"Row columns", i + 1, Len(data[i]),
                                     expected_cols>>)
             ELSE problems)

\* lines 317-342: Check 2, from row i (1-based) on
RECURSIVE pattern_loop(_, _, _, _)
pattern_loop(data, total, i, problems) ==
    IF i > Len(data) THEN problems
    ELSE pattern_loop(data, total, i + 1,
             IF IsSuspicious(data[i], total)
             THEN Append(problems, <<"Suspicious", race_title_of(data[i]),
                                     data[i][2]>>)
             ELSE problems)

\* lines 299-342: the verification checks
MergeVerify ==
    /\ pc = "merge_verify"
    /\ problems_found' =
           pattern_loop(merged_data, total_precincts, 1,
               shape_loop(merged_data, 2 + total_precincts, 1, problems_found))
    /\ pc' = "merge_save"
    /\ UNCHANGED <<sheetVars, base_rows, merged_headers, merged_data, total_precincts,
                   colsVars, raceVars, flatVars, inputVars, file_index,
                   keyVars, saved_file,
                   exportVars, reportVars>>

\* The findings the report shows at most
ShownFindings == 10

\* lines 345-352: the first findings, and how many more there are
report_of(problems) ==
    [shown |-> SubSeq(problems, 1,
                      IF Len(problems) > ShownFindings THEN ShownFindings
                      ELSE Len(problems)),
     more |-> IF Len(problems) > ShownFindings
              THEN Len(problems) - ShownFindings ELSE 0]

\* lines 344-371: the report is printed and the merged file is saved
MergeSave ==
    /\ pc = "merge_save"
    /\ report' = report_of(problems_found)
    /\ saved_file' = <<merged_headers>> \o merged_data
    /\ pc' = "merge_done"
    /\ UNCHANGED <<sheetVars, posVars, colsVars, raceVars, flatVars, inputVars,
                   file_index, keyVars,
                   exportVars>>

----------------------------------------------------------------------------
(* team_a/process_iowa_election_data.py: process_2016_file and the          *)
(* key-based merge_county_files, for the year 2016.  A DataFrame is the     *)
(* sequence of its column names followed by its rows.                       *)

sTotalWord == <<"T","o","t","a","l">>
sAdairTotal == cAdair \o sTotalSuffix
sSuffixX == <<"_","x">>
sSuffixY == <<"_","y">>

\* The characters of the race titles, candidate names and column names, in
\* code point order.
CharOrder ==
    <<" ", "-", ".", "0", "1", "2", "3", "4", "5", "6", "7", "8", "9",
      "A","B","C","D","E","F","G","H","I","J","K","L","M",
      "N","O","P","Q","R","S","T","U","V","W","X","Y","Z", "_",
      "a","b","c","d","e","f","g","h","i","j","k","l","m",
      "n","o","p","q","r","s","t","u","v","w","x","y","z">>

CharRank(c) == CHOOSE i \in 1..Len(CharOrder) : CharOrder[i] = c

\* s < t, as Python compares text
RECURSIVE StrLess(_, _)
StrLess(s, t) ==
    IF t = <<>> THEN FALSE
    ELSE IF s = <<>> THEN TRUE
    ELSE IF Head(s) = Head(t) THEN StrLess(Tail(s), Tail(t))
    ELSE CharRank(Head(s)) < CharRank(Head(t))

\* s.replace(old, ''), old not empty
RECURSIVE Remove(_, _)
Remove(s, old) ==
    IF Len(s) < Len(old) THEN s
    ELSE IF SubSeq(s, 1, Len(old)) = old
         THEN Remove(SubSeq(s, Len(old) + 1, Len(s)), old)
         ELSE <<Head(s)>> \o Remove(Tail(s), old)

\* The first position of x in seq, 0 when it is not there
IndexOf(seq, x) ==
    IF \E i \in 1..Len(seq) : seq[i] = x
    THEN CHOOSE i \in 1..Len(seq) :
             seq[i] = x /\ \A j \in 1..(i - 1) : seq[j] # x
    ELSE 0

\* line 37
candidate_col_of(columns) ==
    IF IndexOf(columns, sBlankCandidateName) # 0 THEN sBlankCandidateName
    ELSE sCandidateName

\* line 40: selecting a column the sheet does not have raises KeyError
Raises2016(df) ==
    \/ IndexOf(df[1], sRaceTitle) = 0
    \/ IndexOf(df[1], candidate_col_of(df[1])) = 0

\* line 56: the 1-based positions of the columns taken as precinct totals
total_cols_of(columns) ==
    Ascending({c \in 1..Len(columns) :
        /\ EndsWith(Strip(columns[c]), sTotalWord)
        /\ ~EndsWith(Strip(columns[c]), sAdairTotal)})

\* line 62
precinct_name_of(col) == Strip(Remove(Strip(col), sTotalSuffix))

\* lines 59-64: the keys of precinct_data in insertion order, and for each
\* the column whose values it holds at the end (the last of that name)
RECURSIVE distinct_names(_, _, _)
distinct_names(columns, cols, acc) ==
    IF cols = <<>> THEN acc
    ELSE LET name == precinct_name_of(columns[Head(cols)])
         IN  distinct_names(columns, Tail(cols),
                 IF IndexOf(acc, name) # 0 THEN acc ELSE Append(acc, name))

last_col_named(columns, cols, name) ==
    LET hits == {k \in 1..Len(cols) : precinct_name_of(columns[cols[k]]) = name}
    IN  cols[CHOOSE k \in hits : \A j \in hits : j <= k]

NoData == <<"None">>

\* lines 30-71: the table of one county file, or NoData
process_2016_file(df) ==
    LET columns == df[1]
        race_idx == IndexOf(columns, sRaceTitle)
        cand_idx == IndexOf(columns, candidate_col_of(columns))
        filtered_indices ==
            Ascending({i \in 2..Len(df) : filter_races_keeps(df[i][race_idx])})
        total_cols == total_cols_of(columns)
        names == distinct_names(columns, total_cols, <<>>)
        cols == [k \in 1..Len(names) |->
                    last_col_named(columns, total_cols, names[k])]
    IN  IF filtered_indices = <<>> THEN NoData
        ELSE <<(<<sRaceTitle, sCandidateName>> \o names)>> \o
             [r \in 1..Len(filtered_indices) |->
                <<df[filtered_indices[r]][race_idx],
                  df[filtered_indices[r]][cand_idx]>> \o
                [k \in 1..Len(names) |-> df[filtered_indices[r]][cols[k]]]]

key_of(row) == <<row[1], row[2]>>

\* line 221: the keys of all tables, each once, in order of first occurrence
RECURSIVE drop_duplicates(_, _)
drop_duplicates(keys, acc) ==
    IF keys = <<>> THEN acc
    ELSE drop_duplicates(Tail(keys),
             IF IndexOf(acc, Head(keys)) # 0 THEN acc
             ELSE Append(acc, Head(keys)))

RECURSIVE concat_keys(_)
concat_keys(tables) ==
    IF tables = <<>> THEN <<>>
    ELSE [i \in 1..(Len(Head(tables)) - 1) |-> key_of(Head(tables)[i + 1])]
         \o concat_keys(Tail(tables))

\* DataFrame.merge(how='left') with an inner join in its place: a row whose
\* key the right table lacks is dropped
RECURSIVE join_rows_Inner(_, _, _)
join_rows_Inner(left, right, width) ==
    IF left = <<>> THEN <<>>
    ELSE LET l == Head(left)
             hits == Ascending({j \in 1..Len(right) : key_of(right[j]) = key_of(l)})
         IN  [m \in 1..Len(hits) |-> l \o SubSeq(right[hits[m]], 3, width + 2)]
             \o join_rows_Inner(Tail(left), right, width)

\* The rows of DataFrame.merge(on=keys, how='left'): every left row in
\* order, once per right row of the same key, or once with missing values
\* when the right table has no row of that key.
RECURSIVE join_rows(_, _, _)
join_rows(left, right, width) ==
    IF left = <<>> THEN <<>>
    ELSE LET l == Head(left)
             hits == Ascending({j \in 1..Len(right) : key_of(right[j]) = key_of(l)})
         IN  (IF hits = <<>>
              THEN << l \o [k \in 1..width |-> Missing] >>
              ELSE [m \in 1..Len(hits) |->
                        l \o SubSeq(right[hits[m]], 3, width + 2)])
             \o join_rows(Tail(left), right, width)

\* lines 232-236: one left join; a precinct column name that both tables
\* have gets the suffix _x on the left and _y on the right
left_merge(left, right) ==
    LET lcols == SubSeq(left[1], 3, Len(left[1]))
        rcols == SubSeq(right[1], 3, Len(right[1]))
        lnew == [k \in 1..Len(lcols) |->
                    IF IndexOf(rcols, lcols[k]) # 0 THEN lcols[k] \o sSuffixX
                    ELSE lcols[k]]
        rnew == [k \in 1..Len(rcols) |->
                    IF IndexOf(lcols, rcols[k]) # 0 THEN rcols[k] \o sSuffixY
                    ELSE rcols[k]]
    IN  <<(<<sRaceTitle, sCandidateName>> \o lnew \o rnew)>>
        \o join_rows(Tail(left), Tail(right), Len(rcols))

\* lines 227-236: the joins of the tables from table i on
RECURSIVE merge_loop(_, _, _)
merge_loop(merged, tables, i) ==
    IF i > Len(tables) THEN merged
    ELSE merge_loop(left_merge(merged, tables[i]), tables, i + 1)

\* line 239
insert_party(df) ==
    <<(SubSeq(df[1], 1, 2) \o <<sPoliticalPartyName>>
       \o SubSeq(df[1], 3, Len(df[1])))>>
    \o [i \in 1..(Len(df) - 1) |->
           SubSeq(df[i + 1], 1, 2) \o << <<>> >>
           \o SubSeq(df[i + 1], 3, Len(df[i + 1]))]

KeyLess(a, b) ==
    \/ StrLess(a[1], b[1])
    \/ a[1] = b[1] /\ StrLess(a[2], b[2])

\* line 242: rows in the order of their keys, rows of equal keys in the
\* order they had
RECURSIVE insert_sorted(_, _)
insert_sorted(sorted, row) ==
    IF sorted = <<>> THEN <<row>>
    ELSE IF KeyLess(key_of(row), key_of(Head(sorted)))
         THEN <<row>> \o sorted
         ELSE <<Head(sorted)>> \o insert_sorted(Tail(sorted), row)

RECURSIVE sort_rows(_, _)
sort_rows(rows, acc) ==
    IF rows = <<>> THEN acc
    ELSE sort_rows(Tail(rows), insert_sorted(acc, Head(rows)))

sort_values(df) == <<df[1]>> \o sort_rows(Tail(df), <<>>)

\* lines 220-242
merge_tables(tables) ==
    LET all_races_candidates == drop_duplicates(concat_keys(tables), <<>>)
        start == << <<sRaceTitle, sCandidateName>> >> \o all_races_candidates
    IN  sort_values(insert_party(merge_loop(start, tables, 1)))

\* lines 185-193
\* lines 260-292: main stops when the input directory is not there, and
\* else runs the merge of the year
TeamMain ==
    /\ pc = "main_start"
    /\ pc' = IF input_dir_exists THEN "team_start" ELSE "main_nodir"
    /\ UNCHANGED <<sheetVars, keyVars, posVars, colsVars, raceVars, flatVars, inputVars,
                   file_index, saved_file, exportVars, reportVars>>

TeamStart ==
    /\ pc = "team_start"
    /\ IF Len(county_files) = 0
       THEN pc' = "team_nofiles"
       ELSE pc' = "team_files"
    /\ all_data' = <<>>
    /\ UNCHANGED <<sheetVars, merged_df, posVars, colsVars, raceVars, flatVars, inputVars,
                   file_index, saved_file,
                   exportVars, reportVars>>

\* lines 199-211 with an exception that discards the tables parsed so far
append_parsed_Discard(tables, df) ==
    IF Raises2016(df) THEN <<>>
    ELSE LET table == process_2016_file(df)
         IN  IF table = NoData THEN tables ELSE Append(tables, table)

\* lines 199-211: the table of a file is added; a file that raises or gives
\* no data is reported and left out
append_parsed(tables, df) ==
    IF Raises2016(df) THEN tables
    ELSE LET table == process_2016_file(df)
         IN  IF table = NoData THEN tables ELSE Append(tables, table)

\* lines 195-211: one pass of the file loop
TeamProcessFile ==
    /\ pc = "team_files"
    /\ file_index < Len(county_files)
    /\ all_data' = append_parsed(all_data, county_files[file_index + 1].sheet)
    /\ file_index' = file_index + 1
    /\ pc' = IF file_index + 1 = Len(county_files) THEN "team_merge"
             ELSE "team_files"
    /\ UNCHANGED <<sheetVars, merged_df, posVars, colsVars, raceVars, flatVars, inputVars,
                   saved_file,
                   exportVars, reportVars>>

\* line 213 with a test that never holds
no_data_Never(tables) == FALSE

\* line 213
no_data(tables) == Len(tables) = 0

\* lines 213-246: merge the tables and save the result as CSV
TeamMerge ==
    /\ pc = "team_merge"
    /\ IF no_data(all_data)
       THEN /\ pc' = "team_nodata"
            /\ UNCHANGED <<merged_df, saved_file>>
       ELSE /\ merged_df' = merge_tables(all_data)
            /\ saved_file' = merged_df'
            /\ pc' = "team_done"
    /\ UNCHANGED <<sheetVars, all_data, posVars, colsVars, raceVars, flatVars, inputVars,
                   file_index,
                   exportVars, reportVars>>

----------------------------------------------------------------------------
(* A merge run: the positional merge of cleaned county files, or the        *)
(* key-based merge of raw county files.                                     *)

----------------------------------------------------------------------------
(* example_us_senate.py: the statewide results of the U.S. Senate race,     *)
(* computed from the long table (one row per candidate and precinct) that   *)
(* the script reads.  Shares are percentages in tenths: 55.0 is 550.        *)

sRepublicanParty ==
    <<"R","e","p","u","b","l","i","c","a","n"," ","P","a","r","t","y">>
sDemocraticParty ==
    <<"D","e","m","o","c","r","a","t","i","c"," ","P","a","r","t","y">>
sLibertarianParty ==
    <<"L","i","b","e","r","t","a","r","i","a","n"," ","P","a","r","t","y">>

\* lines 41-48: the party label of a PoliticalPartyName
party_map(name) ==
    IF name = sRepublicanParty THEN "Republican"
    ELSE IF name = sDemocraticParty THEN "Democratic"
    ELSE IF name = sLibertarianParty THEN "Libertarian"
    ELSE "Other"

\* The party labels in the order groupby sorts them
PartyOrder == <<"Democratic", "Libertarian", "Other", "Republican">>

\* The long table of a merged wide table: one row per data row and precinct
\* column, the precinct column's name as shp_idx.
database_of(df) ==
    IF df = NotSaved THEN <<>>
    ELSE LET k == Len(df[1]) - 3
             n == Len(df) - 1
         IN  [j \in 1..(n * k) |->
                LET row == df[((j - 1) \div k) + 2]
                    c == ((j - 1) % k) + 4
                IN  [RaceTitle |-> row[1], CandidateName |-> row[2],
                     PoliticalPartyName |-> row[3], shp_idx |-> df[1][c],
                     votes |-> row[c]]]

\* lines 30 and 48: the rows of the race, each with its party label
senate_of(df) ==
    LET rows == SelectSeq(df, LAMBDA r : r.RaceTitle = tUSSenatorDots)
    IN  [i \in 1..Len(rows) |->
            [CandidateName |-> rows[i].CandidateName,
             party |-> party_map(rows[i].PoliticalPartyName),
             shp_idx |-> rows[i].shp_idx,
             votes |-> rows[i].votes]]

\* Series.sum(): missing values are skipped
RECURSIVE votes_sum(_)
votes_sum(rows) ==
    IF rows = <<>> THEN 0
    ELSE (IF Head(rows).votes = Missing THEN 0 ELSE Head(rows).votes)
         + votes_sum(Tail(rows))

\* round(num / den * 100, 1) in tenths, den > 0: to the nearest tenth, a
\* tie to the even one
round_share(num, den) ==
    LET n == num * 1000
        q == n \div den
        r == n % den
    IN  IF 2 * r > den THEN q + 1
        ELSE IF 2 * r < den THEN q
        ELSE q + (q % 2)

of_party(group, party) == SelectSeq(group, LAMBDA r : r.party = party)

\* lines 65-69
r_share_of(group) ==
    LET total == votes_sum(group)
        r_votes == votes_sum(of_party(group, "Republican"))
    IN  IF total > 0 THEN round_share(r_votes, total) ELSE 0

\* lines 66-70
r_twoparty_of(group) ==
    LET r_votes == votes_sum(of_party(group, "Republican"))
        d_votes == votes_sum(of_party(group, "Democratic"))
    IN  IF r_votes + d_votes > 0 THEN round_share(r_votes, r_votes + d_votes)
        ELSE 0

\* lines 62-77: one entry per precinct of the race
precinct_rshare_of(senate) ==
    {LET group == SelectSeq(senate, LAMBDA r : r.shp_idx = p)
     IN  [shp_idx |-> p, r_share |-> r_share_of(group),
          r_twoparty |-> r_twoparty_of(group),
          total_votes |-> votes_sum(group)] :
     p \in {senate[i].shp_idx : i \in 1..Len(senate)}}

\* The (CandidateName, party) groups in the order groupby gives them
GroupLess(a, b) ==
    \/ StrLess(a[1], b[1])
    \/ a[1] = b[1] /\ IndexOf(PartyOrder, a[2]) < IndexOf(PartyOrder, b[2])

RECURSIVE groups_in_order(_)
groups_in_order(groups) ==
    IF groups = {} THEN <<>>
    ELSE LET lo == CHOOSE g \in groups :
                       \A h \in groups : h = g \/ GroupLess(g, h)
         IN  <<lo>> \o groups_in_order(groups \ {lo})

\* line 89: the votes of every (CandidateName, party) group
district_totals_of(senate) ==
    LET groups == groups_in_order(
                      {<<senate[i].CandidateName, senate[i].party>> :
                          i \in 1..Len(senate)})
    IN  [g \in 1..Len(groups) |->
            [CandidateName |-> groups[g][1], party |-> groups[g][2],
             votes |-> votes_sum(SelectSeq(senate, LAMBDA r :
                           /\ r.CandidateName = groups[g][1]
                           /\ r.party = groups[g][2]))]]

\* line 90: most votes first, rows of equal votes in the order they had
RECURSIVE insert_by_votes(_, _)
insert_by_votes(sorted, row) ==
    IF sorted = <<>> THEN <<row>>
    ELSE IF Head(sorted).votes < row.votes THEN <<row>> \o sorted
    ELSE <<Head(sorted)>> \o insert_by_votes(Tail(sorted), row)

RECURSIVE sort_by_votes(_, _)
sort_by_votes(rows, acc) ==
    IF rows = <<>> THEN acc
    ELSE sort_by_votes(Tail(rows), insert_by_votes(acc, Head(rows)))

\* lines 89-100: the 'statewide' list; the share of a race without votes is
\* the missing value that 0 / 0 gives
results_district_of(senate) ==
    LET district_totals == sort_by_votes(district_totals_of(senate), <<>>)
        total_all == votes_sum(district_totals)
    IN  [i \in 1..Len(district_totals) |->
            [CandidateName |-> district_totals[i].CandidateName,
             party |-> district_totals[i].party,
             votes |-> district_totals[i].votes,
             share |-> IF total_all = 0 THEN Missing
                       ELSE round_share(district_totals[i].votes, total_all)]]

\* The export script run on the table that the key-based merge wrote, or on
\* the table of a run of its own
ExportDashboard ==
    /\ pc \in {"team_done", "export_start"}
    /\ LET senate == senate_of(database_of(saved_file))
       IN  /\ precinct_rshare' = precinct_rshare_of(senate)
           /\ results_district' = results_district_of(senate)
    /\ pc' = "export_done"
    /\ UNCHANGED <<sheetVars, posVars, keyVars, colsVars, raceVars, flatVars, inputVars,
                   file_index, saved_file, reportVars>>

InitMerge ==
    /\ \/ /\ pc = "merge_start"
          /\ input_dir_exists = TRUE
          /\ FilesFound("cleaned")
       \/ /\ pc = "main_start"
          /\ input_dir_exists = TRUE
          /\ FilesFound("raw")
       \/ /\ pc = "main_start"
          /\ input_dir_exists = FALSE
          /\ county_files = <<>>
    /\ file_index = 0
    /\ base_rows = <<>>
    /\ merged_headers = <<>>
    /\ merged_data = <<>>
    /\ total_precincts = 0
    /\ problems_found = <<>>
    /\ report = NoReport
    /\ all_data = <<>>
    /\ merged_df = <<>>
    /\ saved_file = NotSaved
    /\ precinct_rshare = {}
    /\ results_district = <<>>
    /\ ColsIdle /\ RaceIdle /\ FlatIdle /\ SheetIdle

NextMerge ==
    \/ MergeStart \/ MergeAddFile \/ MergeVerify \/ MergeSave
    \/ TeamMain \/ TeamStart \/ TeamProcessFile \/ TeamMerge
    \/ ExportDashboard

SpecMerge == InitMerge /\ [][NextMerge]_vars

----------------------------------------------------------------------------
(* Runs of the key-based merge alone, over county files of which some       *)
(* cannot be parsed.                                                        *)

sRace == <<"R","a","c","e">>

\* A raw county file without the RaceTitle column: line 40 raises KeyError
UnreadableSheet(f, scheme, np) ==
    LET sheet == RawSheet(f, scheme, np, FALSE, "same", "full")
    IN  [sheet EXCEPT ![1] = <<sRace>> \o Tail(sheet[1])]

\* A raw county file that lists its first row a second time
RepeatedSheet(f, scheme, np) ==
    LET sheet == RawSheet(f, scheme, np, FALSE, "same", "full")
    IN  Append(sheet, sheet[2])

TeamOrders == RowOrders \cup {"unreadable", "repeated"}

TeamSheet(f, scheme, np, order) ==
    IF order = "unreadable" THEN UnreadableSheet(f, scheme, np)
    ELSE IF order = "repeated" THEN RepeatedSheet(f, scheme, np)
    ELSE RawSheet(f, scheme, np, FALSE, order, "full")

InitTeam ==
    /\ pc = "team_start"
    /\ input_dir_exists = TRUE
    /\ \E n \in 0..MaxFiles, scheme \in BallotSchemes, np \in {1, 2} :
           \E orders \in [1..n -> TeamOrders] :
               county_files =
                   [f \in 1..n |->
                       CountyFile(f, TeamSheet(f, scheme, np, orders[f]))]
    /\ file_index = 0
    /\ base_rows = <<>>
    /\ merged_headers = <<>>
    /\ merged_data = <<>>
    /\ total_precincts = 0
    /\ problems_found = <<>>
    /\ report = NoReport
    /\ all_data = <<>>
    /\ merged_df = <<>>
    /\ saved_file = NotSaved
    /\ precinct_rshare = {}
    /\ results_district = <<>>
    /\ ColsIdle /\ RaceIdle /\ FlatIdle /\ SheetIdle

NextTeam == TeamStart \/ TeamProcessFile \/ TeamMerge \/ ExportDashboard

SpecTeam == InitTeam /\ [][NextTeam]_vars

----------------------------------------------------------------------------
(* Runs of the positional merge over two county files of one precinct and   *)
(* many rows of a district race, for the report of the findings.            *)

MaxReportRows == 11

\* The candidate of ballot row b
ReportCandidate(b) == [k \in 1..b |-> "c"]

\* File f with n rows: the rows in ballot order, or each row one place
\* further down and the last row first; the first s ballot rows with votes.
ReportSheet(f, n, rotated, s) ==
    LET id(i) == IF rotated THEN (i % n) + 1 ELSE i
        row(b) == <<tStateRep1, ReportCandidate(b), "Party",
                    IF b <= s THEN 100 * f + b ELSE 0>>
    IN  << <<sRaceTitle, sCandidateName, sPoliticalPartyName,
             PrecinctName(f, FALSE, 1)>> >>
        \o [i \in 1..n |-> row(id(i))]

InitReport ==
    /\ pc = "merge_start"
    /\ input_dir_exists = TRUE
    /\ \E n \in 1..MaxReportRows, rotated \in BOOLEAN :
           \E s \in 0..n :
               county_files =
                   <<CountyFile(1, ReportSheet(1, n, FALSE, s)),
                     CountyFile(2, ReportSheet(2, n, rotated, s))>>
    /\ file_index = 0
    /\ base_rows = <<>>
    /\ merged_headers = <<>>
    /\ merged_data = <<>>
    /\ total_precincts = 0
    /\ problems_found = <<>>
    /\ report = NoReport
    /\ all_data = <<>>
    /\ merged_df = <<>>
    /\ saved_file = NotSaved
    /\ precinct_rshare = {}
    /\ results_district = <<>>
    /\ ColsIdle /\ RaceIdle /\ FlatIdle /\ SheetIdle

NextReport == MergeStart \/ MergeAddFile \/ MergeVerify \/ MergeSave

SpecReport == InitReport /\ [][NextReport]_vars

----------------------------------------------------------------------------
(* process_2018_2020_file of team_a/process_iowa_election_data.py: the      *)
(* parser of the multi-sheet county files. A sheet is the table read with   *)
(* header=None: a sequence of rows of cells; a cell is text, Num(n) or NaN. *)

MaxSheetRows == 3     \* rows of a sheet below its three header rows

NaN == <<"NaN">>
Num(n) == <<"num", n>>

\* pd.isna
isna(val) == val = NaN

\* df.iloc[row, col]
iloc(df, row, col) == df[row + 1][col + 1]

\* len(df.columns)
Width(df) == Len(df[1])

sTableOfContents ==
    <<"T","a","b","l","e"," ","o","f"," ","C","o","n","t","e","n","t","s">>
sRegisteredVoters ==
    <<"R","e","g","i","s","t","e","r","e","d"," ","V","o","t","e","r","s">>
sTotalMark == <<"T","o","t","a","l",":">>
sTotalVotes == <<"T","o","t","a","l"," ","V","o","t","e","s">>
sElectionDay == <<"E","l","e","c","t","i","o","n"," ","D","a","y">>
sPrecinct == <<"P","r","e","c","i","n","c","t">>

\* lines 80-81: the sheets that are not parsed
skipped_sheets == {sTableOfContents, sRegisteredVoters}

IsDataSheet(sheet) == sheet.name \notin skipped_sheets

\* line 101
precinct_start_row == 3

\* lines 105-109 with the sentinel cells passed over instead of ending the scan
RECURSIVE precinct_scan_PassOver(_, _, _)
precinct_scan_PassOver(df, row, acc) ==
    IF row >= Len(df) THEN acc
    ELSE LET val == iloc(df, row, 0)
         IN  IF val = sTotalMark \/ isna(val)
             THEN precinct_scan_PassOver(df, row + 1, acc)
             ELSE precinct_scan_PassOver(df, row + 1,
                      [names |-> Append(acc.names, val),
                       rows |-> Append(acc.rows, row)])

\* lines 105-109: the labels of column 0 from row `row` on, up to the first
\* cell that is 'Total:' or missing
RECURSIVE precinct_scan(_, _, _)
precinct_scan(df, row, acc) ==
    IF row >= Len(df) THEN acc
    ELSE LET val == iloc(df, row, 0)
         IN  IF val = sTotalMark \/ isna(val)
             THEN acc
             ELSE precinct_scan(df, row + 1,
                      [names |-> Append(acc.names, val),
                       rows |-> Append(acc.rows, row)])

\* line 128: columns looked at for the total of a candidate
LookAhead == 5

NoColumn == -1

\* lines 127-133 with the look-ahead running to the last column of the sheet
RECURSIVE total_col_of_AnyFurther(_, _, _)
total_col_of_AnyFurther(df, col_idx, offset) ==
    IF col_idx + offset >= Width(df) THEN NoColumn
    ELSE IF iloc(df, 2, col_idx + offset) \in {sTotalVotes, hTotalNoBlank}
         THEN col_idx + offset
         ELSE total_col_of_AnyFurther(df, col_idx, offset + 1)

\* lines 127-133: the first column among col_idx .. col_idx + 4 whose row-2
\* label is 'Total Votes' or 'Total'
RECURSIVE total_col_of(_, _, _)
total_col_of(df, col_idx, offset) ==
    IF offset >= LookAhead THEN NoColumn
    ELSE IF /\ col_idx + offset < Width(df)
            /\ iloc(df, 2, col_idx + offset) \in {sTotalVotes, hTotalNoBlank}
         THEN col_idx + offset
         ELSE total_col_of(df, col_idx, offset + 1)

\* lines 118-140
RECURSIVE candidate_scan(_, _, _)
candidate_scan(df, col_idx, acc) ==
    IF col_idx >= Width(df) THEN acc
    ELSE IF isna(iloc(df, 1, col_idx))
         THEN candidate_scan(df, col_idx + 1, acc)
         ELSE LET total_col_idx == total_col_of(df, col_idx, 0)
              IN  IF total_col_idx # NoColumn
                  THEN candidate_scan(df, total_col_idx + 1,
                           [names |-> Append(acc.names, iloc(df, 1, col_idx)),
                            cols |-> Append(acc.cols, total_col_idx)])
                  ELSE candidate_scan(df, col_idx + 1, acc)

\* lines 145-155: the record of one candidate at one precinct
race_record(county_name, df, candidate, col_idx, precinct_name, row_idx) ==
    LET votes == iloc(df, row_idx, col_idx)
    IN  [RaceTitle |-> iloc(df, 0, 0),
         CandidateName |-> candidate,
         PrecinctName |-> county_name \o sHyphen \o precinct_name,
         Votes |-> IF isna(votes) THEN Num(0) ELSE votes]

\* lines 143-155: candidate by candidate, precinct by precinct
records_of(county_name, df, names, rows, cands, cols) ==
    LET np == Len(names)
    IN  [k \in 1..(Len(cands) * np) |->
            LET c == ((k - 1) \div np) + 1
                q == ((k - 1) % np) + 1
            IN  race_record(county_name, df, cands[c], cols[c],
                            names[q], rows[q])]

\* lines 77-83
OpenWorkbook ==
    /\ pc = "sheets_start"
    /\ data_sheets' = SelectSeq(workbook.sheets, IsDataSheet)
    /\ all_races' = <<>>
    /\ pc' = "sheets_loop"
    /\ UNCHANGED <<workbook, sheet_index, precinct_names, precinct_rows,
                   candidates, candidate_cols, pivot_df,
                   colsVars, raceVars, flatVars, inputVars, file_index,
                   posVars, reportVars, keyVars, saved_file, exportVars>>

\* lines 85-155: one sheet of the loop
ParseSheet ==
    /\ pc = "sheets_loop"
    /\ sheet_index < Len(data_sheets)
    /\ LET df == data_sheets[sheet_index + 1].df
           axis == precinct_scan(df, precinct_start_row,
                                 [names |-> <<>>, rows |-> <<>>])
           found == candidate_scan(df, 1, [names |-> <<>>, cols |-> <<>>])
       IN  IF isna(iloc(df, 0, 0))
           THEN UNCHANGED <<precinct_names, precinct_rows, candidates,
                            candidate_cols, all_races>>
           ELSE /\ precinct_names' = axis.names
                /\ precinct_rows' = axis.rows
                /\ IF Len(axis.names) = 0
                   THEN UNCHANGED <<candidates, candidate_cols, all_races>>
                   ELSE /\ candidates' = found.names
                        /\ candidate_cols' = found.cols
                        /\ all_races' =
                               all_races
                               \o records_of(workbook.county, df, axis.names,
                                             axis.rows, found.names,
                                             found.cols)
    /\ sheet_index' = sheet_index + 1
    /\ UNCHANGED <<workbook, data_sheets, pivot_df, pc,
                   colsVars, raceVars, flatVars, inputVars, file_index,
                   posVars, reportVars, keyVars, saved_file, exportVars>>

\* line 164: the records of the races filter_races keeps
KeptRecord(record) == filter_races_keeps(record.RaceTitle)

RECURSIVE insert_name(_, _)
insert_name(sorted, name) ==
    IF sorted = <<>> THEN <<name>>
    ELSE IF name = Head(sorted) THEN sorted
    ELSE IF StrLess(name, Head(sorted)) THEN <<name>> \o sorted
    ELSE <<Head(sorted)>> \o insert_name(Tail(sorted), name)

\* the distinct values of a column of the records, in ascending order
RECURSIVE sorted_names(_, _)
sorted_names(names, acc) ==
    IF names = <<>> THEN acc
    ELSE sorted_names(Tail(names), insert_name(acc, Head(names)))

RECURSIVE insert_key(_, _)
insert_key(sorted, key) ==
    IF sorted = <<>> THEN <<key>>
    ELSE IF key = Head(sorted) THEN sorted
    ELSE IF KeyLess(key, Head(sorted)) THEN <<key>> \o sorted
    ELSE <<Head(sorted)>> \o insert_key(Tail(sorted), key)

RECURSIVE sorted_keys(_, _)
sorted_keys(records, acc) ==
    IF records = <<>> THEN acc
    ELSE sorted_keys(Tail(records),
                     insert_key(acc, <<Head(records).RaceTitle,
                                       Head(records).CandidateName>>))

\* aggfunc='first': the votes of the first record of the key at the
\* precinct, NaN when there is none
first_votes(records, key, precinct) ==
    LET at == {k \in 1..Len(records) :
                  /\ records[k].RaceTitle = key[1]
                  /\ records[k].CandidateName = key[2]
                  /\ records[k].PrecinctName = precinct}
    IN  IF at = {} THEN NaN
        ELSE records[CHOOSE k \in at : \A j \in at : k <= j].Votes

\* lines 170-175: one row for each key, one column for each precinct
pivot_table(records) ==
    LET keys == sorted_keys(records, <<>>)
        precincts ==
            sorted_names([k \in 1..Len(records) |-> records[k].PrecinctName],
                         <<>>)
    IN  << <<sRaceTitle, sCandidateName>> \o precincts >>
        \o [i \in 1..Len(keys) |->
               keys[i]
               \o [j \in 1..Len(precincts) |->
                      first_votes(records, keys[i], precincts[j])]]

\* lines 157-177
PivotRaces ==
    /\ pc = "sheets_loop"
    /\ sheet_index = Len(data_sheets)
    /\ LET races_df == SelectSeq(all_races, KeptRecord)
       IN  pivot_df' = IF Len(all_races) = 0 \/ Len(races_df) = 0
                       THEN NoneStr
                       ELSE pivot_table(races_df)
    /\ pc' = "sheets_done"
    /\ UNCHANGED <<workbook, data_sheets, sheet_index, precinct_names,
                   precinct_rows, candidates, candidate_cols, all_races,
                   colsVars, raceVars, flatVars, inputVars, file_index,
                   posVars, reportVars, keyVars, saved_file, exportVars>>

\* The cells of column 0 below the header rows: precinct labels, the
\* 'Total:' marker, an empty cell, and the label 'Total' without the colon
AxisCells == {<<"1">>, <<"2">>, sTotalMark, NaN, hTotalNoBlank}

\* The titles of cell (0, 0): a race filter_races keeps, one it drops, none
SheetTitles == {pUSSenator, tJudge, NaN}

\* Rows 1 and 2 right of column 0: two candidates with three columns each,
\* one candidate whose only column is labelled 'Total', no candidate
CandidateLayouts ==
    << [names |-> << <<"R">>, NaN, NaN, <<"D">>, NaN, NaN >>,
        labels |-> <<sElectionDay, sAbsentee, sTotalVotes,
                     sElectionDay, sAbsentee, sTotalVotes>>],
       [names |-> << <<"R">> >>, labels |-> <<hTotalNoBlank>>],
       [names |-> <<NaN, NaN>>, labels |-> <<sElectionDay, sAbsentee>>] >>

sNotCounted == <<"n","a">>

\* The vote cell of row `row`, column `col`: empty, a text, or a number
VoteCell(row, col) ==
    IF (row + col) % 3 = 0 THEN NaN
    ELSE IF (row + col) % 5 = 0 THEN sNotCounted
    ELSE Num(10 * row + col)

\* The table of a sheet: title row, candidate row, label row, and one row
\* for each cell of `axis`
SheetTable(title, layout, axis) ==
    LET wide == Len(layout.names)
    IN  << <<title>> \o [c \in 1..wide |-> NaN],
           <<NaN>> \o layout.names,
           <<sPrecinct>> \o layout.labels >>
        \o [i \in 1..Len(axis) |->
               <<axis[i]>> \o [c \in 1..wide |-> VoteCell(i + 2, c)]]

sSenateSheet == <<"1">>
sOtherSheet == <<"2">>

\* The sheets ahead of the last sheet of the workbook: none, the table of
\* contents, or a sheet of the US Senate race with two precincts
LeadingSheets ==
    << <<>>,
       << [name |-> sTableOfContents,
           df |-> << <<sTableOfContents>>, <<NaN>>, <<NaN>>,
                     <<pUSSenator>>, <<NaN>>, <<tJudge>> >>] >>,
       << [name |-> sSenateSheet,
           df |-> SheetTable(pUSSenator, CandidateLayouts[1],
                             << <<"1">>, <<"2">> >>)] >> >>

MaxLayoutCols == 6    \* columns right of column 0 of a sheet of ScanLayout

\* The candidate named at column `col` of row 1
CandidateAt(col) == <<UpperChars[col]>>

\* Rows 1 and 2 right of column 0, `wide` columns: a candidate named at the
\* columns of `named`, the label `label` at the columns of `totals`
ScanLayout(wide, named, totals, label) ==
    [names |-> [c \in 1..wide |->
                   IF c \in named THEN CandidateAt(c) ELSE NaN],
     labels |-> [c \in 1..wide |->
                    IF c \in totals THEN label ELSE sElectionDay]]

InitSheets ==
    /\ pc = "sheets_start"
    /\ \/ \E lead \in 1..Len(LeadingSheets), title \in SheetTitles,
             layout \in 1..Len(CandidateLayouts), n \in 0..MaxSheetRows :
              \E axis \in [1..n -> AxisCells] :
                  workbook =
                      [county |-> cAdair,
                       sheets |-> LeadingSheets[lead]
                                  \o << [name |-> sOtherSheet,
                                         df |-> SheetTable(
                                                    title,
                                                    CandidateLayouts[layout],
                                                    axis)] >>]
       \/ \E wide \in 1..MaxLayoutCols, label \in {sTotalVotes, hTotalNoBlank} :
              \E named \in SUBSET (1..wide), totals \in SUBSET (1..wide) :
                  workbook =
                      [county |-> cAdair,
                       sheets |-> << [name |-> sOtherSheet,
                                      df |-> SheetTable(
                                                 pUSSenator,
                                                 ScanLayout(wide, named,
                                                            totals, label),
                                                 << <<"1">>, <<"2">> >>)] >>]
    /\ data_sheets = <<>>
    /\ sheet_index = 0
    /\ precinct_names = <<>>
    /\ precinct_rows = <<>>
    /\ candidates = <<>>
    /\ candidate_cols = <<>>
    /\ all_races = <<>>
    /\ pivot_df = NotReturned
    /\ ColsIdle /\ RaceIdle /\ FlatIdle /\ MergeIdle

NextSheets == OpenWorkbook \/ ParseSheet \/ PivotRaces

SpecSheets == InitSheets /\ [][NextSheets]_vars

----------------------------------------------------------------------------
(* Runs of the export script alone, over merged tables of the U.S. Senate   *)
(* race with a party name on every row.                                     *)

MaxExportPrecincts == 2   \* precinct columns of the table the script reads

ExportParties == <<sRepublicanParty, sDemocraticParty, sLibertarianParty>>

ExportVotes == {0, 3, 7}

\* The merged table of np precincts whose cell of candidate b and precinct c
\* is votes[(b - 1) * np + c]
ExportTable(np, votes) ==
    << <<sRaceTitle, sCandidateName, sPoliticalPartyName>>
       \o [c \in 1..np |-> PrecinctName(1, FALSE, c)] >>
    \o [b \in 1..Len(ExportParties) |->
           <<tUSSenatorDots, BallotCandidates[b], ExportParties[b]>>
           \o [c \in 1..np |-> votes[(b - 1) * np + c]]]

InitExport ==
    /\ pc = "export_start"
    /\ \E np \in 1..MaxExportPrecincts :
           \E votes \in [1..(Len(ExportParties) * np) -> ExportVotes] :
               saved_file = ExportTable(np, votes)
    /\ input_dir_exists = TRUE
    /\ county_files = <<>>
    /\ file_index = 0
    /\ base_rows = <<>>
    /\ merged_headers = <<>>
    /\ merged_data = <<>>
    /\ total_precincts = 0
    /\ problems_found = <<>>
    /\ report = NoReport
    /\ all_data = <<>>
    /\ merged_df = <<>>
    /\ precinct_rshare = {}
    /\ results_district = <<>>
    /\ ColsIdle /\ RaceIdle /\ FlatIdle /\ SheetIdle

NextExport == ExportDashboard

SpecExport == InitExport /\ [][NextExport]_vars

----------------------------------------------------------------------------
(* Properties of the merge runs.                                            *)

KeysOf(df) == [i \in 1..(Len(df) - 1) |-> key_of(df[i + 1])]
KeySetOf(df) == {key_of(df[i]) : i \in 2..Len(df)}
AllDistinct(seq) ==
    \A i \in 1..Len(seq) : \A j \in 1..Len(seq) : i # j => seq[i] # seq[j]

\* The precinct column names of a cleaned county file / of a parsed table
CleanedPrecincts(sheet) == {Strip(sheet[1][c]) : c \in 4..Len(sheet[1])}
TablePrecincts(df) == {df[1][c] : c \in 3..Len(df[1])}

\* Two files (tables) with the same keyed rows in the same order, no key
\* twice, and no precinct name in common
AlignedPair(a, b, precincts(_)) ==
    /\ KeysOf(a) = KeysOf(b)
    /\ AllDistinct(KeysOf(a))
    /\ precincts(a) \cap precincts(b) = {}

\* C4, positional merge: the merged table of an aligned pair of cleaned files
C4_Positional ==
    (/\ pc = "merge_done"
     /\ Len(county_files) = 2
     /\ AlignedPair(county_files[1].sheet, county_files[2].sheet,
                    CleanedPrecincts))
    =>
    LET a == county_files[1].sheet
        b == county_files[2].sheet
        n == Len(a) - 1
        pa == Len(a[1]) - 3
        pb == Len(b[1]) - 3
    IN  /\ Len(saved_file) = n + 1
        /\ Len(saved_file[1]) = 2 + pa + pb
        /\ \A c \in 1..pa : saved_file[1][2 + c] = Strip(a[1][3 + c])
        /\ \A c \in 1..pb : saved_file[1][2 + pa + c] = Strip(b[1][3 + c])
        /\ \A r \in 1..n :
              /\ Len(saved_file[r + 1]) = 2 + pa + pb
              /\ key_of(saved_file[r + 1]) = key_of(a[r + 1])
              /\ \A c \in 1..pa : saved_file[r + 1][2 + c] = a[r + 1][3 + c]
              /\ \A c \in 1..pb : saved_file[r + 1][2 + pa + c] = b[r + 1][3 + c]

\* C4, key-based merge: the merged table of an aligned pair of parsed tables
C4_KeyBased ==
    (/\ pc = "team_done"
     /\ Len(all_data) = 2
     /\ AlignedPair(all_data[1], all_data[2], TablePrecincts))
    =>
    LET a == all_data[1]
        b == all_data[2]
        n == Len(a) - 1
        pa == Len(a[1]) - 2
        pb == Len(b[1]) - 2
        row_of(key) == CHOOSE m \in 2..Len(saved_file) : key_of(saved_file[m]) = key
    IN  /\ Len(saved_file) = n + 1
        /\ Len(saved_file[1]) = 3 + pa + pb
        /\ \A c \in 1..pa : saved_file[1][3 + c] = a[1][2 + c]
        /\ \A c \in 1..pb : saved_file[1][3 + pa + c] = b[1][2 + c]
        /\ KeySetOf(saved_file) = KeySetOf(a)
        /\ \A r \in 1..n :
              LET m == row_of(key_of(a[r + 1]))
              IN  /\ Len(saved_file[m]) = 3 + pa + pb
                  /\ \A c \in 1..pa : saved_file[m][3 + c] = a[r + 1][2 + c]
                  /\ \A c \in 1..pb : saved_file[m][3 + pa + c] = b[r + 1][2 + c]

\* C4: merging two county files that have disjoint precinct sets and the
\* same (race, candidate) rows in the same order gives a table with as many
\* data rows as the files share and as many precinct columns as the two files
\* have together, and every cell of a precinct column holds the value that
\* the originating file reported for that (race, candidate) row.
C4_AlignedMerge == C4_Positional /\ C4_KeyBased

\* An aligned pair of two-row files with one and five precinct columns has
\* been merged by position, every cell with a value of its own.
C4_Witness ==
    /\ pc = "merge_done"
    /\ Len(county_files) = 2
    /\ AlignedPair(county_files[1].sheet, county_files[2].sheet,
                   CleanedPrecincts)
    /\ Len(county_files[1].sheet) = 3
    /\ Len(saved_file[1]) = 12
    /\ saved_file[3][3] = 121
    /\ saved_file[3][12] = 225

\* The file loop of the positional merge has handled every file.
FilesMerged == pc \in {"merge_verify", "merge_save", "merge_done"}

\* File f (not the first) has the keys of rows i and j of the first file, two
\* different keys, the other way round.
SwappedRows(f, i, j) ==
    LET a == KeysOf(county_files[1].sheet)
        b == KeysOf(county_files[f].sheet)
    IN  /\ i <= Len(a) /\ j <= Len(a) /\ i <= Len(b) /\ j <= Len(b)
        /\ a[i] # a[j]
        /\ b[i] = a[j]
        /\ b[j] = a[i]

StatewideWords == {kPresident, kGovernor, kUSSenatorDots, kUSSenator}
StatewideRow(row) ==
    /\ row[1] # NoneStr
    /\ \E w \in StatewideWords : Contains(w, Lower(row[1]))
NonzeroCells(row) == {c \in 3..Len(row) : row[c] # Missing /\ row[c] # 0}
FlaggedSuspicious(row) ==
    \E p \in 1..Len(problems_found) :
        /\ problems_found[p][1] = "Suspicious"
        /\ problems_found[p][2] = Lower(row[1])
        /\ problems_found[p][3] = row[2]

\* C6: the vote-pattern check adds a 'Suspicious' finding for every row whose
\* race is not statewide and that has nonzero votes in every precinct column,
\* and adds no finding for a statewide-race row with nonzero votes in only
\* 10% of the precincts.
C6_SuspiciousRows ==
    pc \in {"merge_save", "merge_done"} =>
        \A i \in 1..Len(merged_data) :
            LET row == merged_data[i]
            IN  /\ (/\ ~StatewideRow(row)
                    /\ Len(row) = 2 + total_precincts
                    /\ Cardinality(NonzeroCells(row)) = total_precincts)
                   => FlaggedSuspicious(row)
                /\ (/\ StatewideRow(row)
                    /\ total_precincts > 0
                    /\ 10 * Cardinality(NonzeroCells(row)) = total_precincts)
                   => ~FlaggedSuspicious(row)

\* A merged table of ten precincts holds the row of a presidential candidate
\* with votes in one precinct, which is not flagged, and the row of a
\* district candidate with votes in all ten, which is flagged.
C6_Witness ==
    /\ pc = "merge_done"
    /\ total_precincts = 10
    /\ Len(merged_data) >= 2
    /\ StatewideRow(merged_data[1])
    /\ Cardinality(NonzeroCells(merged_data[1])) = 1
    /\ ~FlaggedSuspicious(merged_data[1])
    /\ ~StatewideRow(merged_data[2])
    /\ Cardinality(NonzeroCells(merged_data[2])) = 10
    /\ FlaggedSuspicious(merged_data[2])

\* C8: after the key-based merge of any sequence of per-county tables the set
\* of (RaceTitle, CandidateName) keys of the merged table is the union of the
\* key sets of the tables: a key that only one county reports has a row.
C8_KeysAreUnion ==
    pc = "team_done" =>
        KeySetOf(saved_file) = UNION {KeySetOf(all_data[t]) : t \in 1..Len(all_data)}

\* Two tables have been merged, the second without a key that the first has.
C8_Witness ==
    /\ pc = "team_done"
    /\ Len(all_data) = 2
    /\ \E k \in KeySetOf(all_data[1]) :
           k \notin KeySetOf(all_data[2]) /\ k \in KeySetOf(saved_file)

\* The position in the merged table before the first precinct column that
\* table t contributes.
RECURSIVE ColumnOffset(_)
ColumnOffset(t) ==
    IF t = 1 THEN 3 ELSE ColumnOffset(t - 1) + Len(all_data[t - 1][1]) - 2

\* C9: in the merged table a (race, candidate) row that is absent from a
\* county file holds zero in every precinct column contributed by that file,
\* and no cell of the merged output is a missing value.
C9_AbsentIsZero ==
    pc = "team_done" =>
        /\ \A t \in 1..Len(all_data) : \A m \in 2..Len(saved_file) :
              key_of(saved_file[m]) \notin KeySetOf(all_data[t]) =>
                  \A c \in 1..(Len(all_data[t][1]) - 2) :
                      saved_file[m][ColumnOffset(t) + c] = 0
        /\ \A m \in 2..Len(saved_file) : \A c \in 4..Len(saved_file[m]) :
              saved_file[m][c] # Missing

\* C10: in the merged statewide table every precinct column name is unique,
\* also when two files both hold a column with the same precinct name.
C10_UniquePrecinctColumns ==
    pc \in {"merge_done", "team_done"} => AllDistinct(saved_file[1])

\* The two county files of the scenario: the U.S. Senate race with R 600 and
\* D 400 in the precinct of the first file, R 300 and D 700 in the precinct
\* of the second.
SenateScenario ==
    county_files =
        [f \in 1..2 |->
            CountyFile(f, RawSheet(f, "senate", 1, FALSE, "same", "senate"))]

\* The key-based pipeline, export included, has come to its end.
TeamRunEnded == pc \in {"team_nofiles", "team_nodata", "export_done"}

SenateRow(candidate, votes) ==
    \E m \in 2..Len(saved_file) :
        /\ key_of(saved_file[m]) = <<tUSSenatorDots, candidate>>
        /\ SubSeq(saved_file[m], 4, Len(saved_file[m])) = votes

\* C7: end to end, the 'U.S. Senator' race with R 600 / D 400 in precinct 1
\* and R 300 / D 700 in precinct 2 gives one merged row per candidate, R with
\* (600, 300) and D with (400, 700), and the statewide result lists D with
\* 1100 votes and share 55.0 before R with 900 votes and share 45.0, the
\* two-party share of R being 45.0.
C7_EndToEnd ==
    (SenateScenario /\ TeamRunEnded) =>
        /\ pc = "export_done"
        /\ Len(saved_file) = 3
        /\ SenateRow(<<"R">>, <<600, 300>>)
        /\ SenateRow(<<"D">>, <<400, 700>>)
        /\ Len(results_district) = 2
        /\ results_district[1].CandidateName = <<"D">>
        /\ results_district[1].votes = 1100
        /\ results_district[1].share = 550
        /\ results_district[2].CandidateName = <<"R">>
        /\ results_district[2].votes = 900
        /\ results_district[2].share = 450
        /\ r_twoparty_of(senate_of(database_of(saved_file))) = 450

\* C11: a cross-file alignment error never aborts the positional merge:
\* whatever the number and order of the rows of the later files relative to
\* the first (a later file with more data rows included), every file is
\* processed and the run reaches the step that writes the merged output.
C11_AlignmentNeverAborts ==
    /\ pc # "merge_crashed"
    /\ pc \in {"merge_verify", "merge_save", "merge_done"} =>
           file_index = Len(county_files)

\* The county files that can be parsed, in order
ParsableFiles ==
    SelectSeq(county_files, LAMBDA file : ~Raises2016(file.sheet))

\* The tables of a list of parsable files, files without data left out
RECURSIVE tables_of(_)
tables_of(files) ==
    IF files = <<>> THEN <<>>
    ELSE LET table == process_2016_file(Head(files).sheet)
         IN  (IF table = NoData THEN <<>> ELSE <<table>>)
             \o tables_of(Tail(files))

\* What the run writes when it is given the files alone
output_of(files) ==
    LET tables == tables_of(files)
    IN  IF tables = <<>> THEN NotSaved ELSE merge_tables(tables)

TeamRunOver == pc \in {"team_nodata", "team_done", "export_done"}

\* C12: when parsing a county file raises an error the batch is not aborted:
\* the file is skipped, every remaining file is still parsed, and the merged
\* output is the one the run would have written had the failing file not
\* been among its input files.
C12_FailedFileSkipped ==
    TeamRunOver =>
        /\ file_index = Len(county_files)
        /\ all_data = tables_of(ParsableFiles)
        /\ saved_file = output_of(ParsableFiles)

\* The first of two files failed to parse, and the table written holds the
\* rows of the second.
C12_Witness ==
    /\ pc = "team_done"
    /\ Len(county_files) = 2
    /\ Raises2016(county_files[1].sheet)
    /\ ~Raises2016(county_files[2].sheet)
    /\ Len(all_data) = 1
    /\ saved_file = output_of(<<county_files[2]>>)
    /\ Len(saved_file) = 3

\* The run is one of the key-based merge (main and what it calls).
TeamRun ==
    pc \in {"main_start", "main_nodir", "team_start", "team_nofiles",
            "team_files", "team_merge", "team_nodata", "team_done",
            "export_done"}

\* There is nothing to merge: no input directory, no file that matches the
\* pattern, or (key-based merge) no file that yields a table.
YieldsNoData(sheet) ==
    \/ Raises2016(sheet)
    \/ \A i \in 2..Len(sheet) :
           ~filter_races_keeps(sheet[i][IndexOf(sheet[1], sRaceTitle)])

NothingToMerge ==
    \/ ~input_dir_exists
    \/ Len(county_files) = 0
    \/ /\ TeamRun
       /\ \A f \in 1..Len(county_files) : YieldsNoData(county_files[f].sheet)

\* The positions of a run before its merge step, the stops with a diagnostic
\* included
BeforeMergeStep ==
    pc \in {"main_start", "main_nodir", "team_start", "team_nofiles",
            "team_files", "team_merge", "team_nodata",
            "merge_start", "merge_nofiles"}

\* C13: when the input directory is absent, or the file pattern matches no
\* file, or no file yields any data, the run stops with a diagnostic before
\* the merge step and writes no output file.
C13_NothingToMergeStops ==
    \/ /\ BeforeMergeStep
       /\ saved_file = NotSaved
       /\ merged_df = <<>>
       /\ merged_data = <<>>
       /\ ~input_dir_exists => pc \in {"main_start", "main_nodir"}
       /\ Len(county_files) = 0 =>
              pc \notin {"team_files", "team_merge", "team_nodata"}
    \/ ~NothingToMerge

\* Two county files were found and parsed, neither gave a table, and the run
\* has stopped without a file written.
C13_Witness ==
    /\ pc = "team_nodata"
    /\ Len(county_files) = 2
    /\ file_index = 2
    /\ \A f \in 1..2 : YieldsNoData(county_files[f].sheet)
    /\ saved_file = NotSaved

\* The position of the party column in the table written, 0 without one
PartyColumn == IndexOf(saved_file[1], sPoliticalPartyName)

\* C14: when at least one contributing county file carries a party name for
\* a (race, candidate) row, the row of that key in the merged table carries
\* that party name.
C14_PartyCarried ==
    pc = "merge_done" =>
        \A m \in 2..Len(saved_file) :
            \A f \in 1..Len(county_files) :
                \A i \in 2..Len(county_files[f].sheet) :
                    (/\ key_of(county_files[f].sheet[i]) = key_of(saved_file[m])
                     /\ county_files[f].sheet[1][3] = sPoliticalPartyName
                     /\ county_files[f].sheet[i][3] = "Party")
                    => /\ PartyColumn # 0
                       /\ saved_file[m][PartyColumn] = "Party"

\* C15: process_2016_file excludes every county-level aggregate total column:
\* for a file of any county, every precinct column of its table has a name
\* with a hyphen ('<County>-<PrecinctLabel>'), so that no '<County> Total'
\* aggregate becomes a precinct column of the merged table.
C15_AggregateExcluded ==
    /\ \A t \in 1..Len(all_data) :
           \A c \in 3..Len(all_data[t][1]) :
               Contains(sHyphen, all_data[t][1][c])
    /\ pc = "team_done" =>
           \A c \in 4..Len(saved_file[1]) : Contains(sHyphen, saved_file[1][c])

\* C16: filter_races keeps exactly the race titles that is_race_we_want
\* keeps: for every race title, 'U.S. Senator', 'United States Senator',
\* 'State Senator Dist. 1' and 'State Representative Dist. 1' among them,
\* the two filters take the same keep/drop decision.
C16_FiltersAgree ==
    pc = "race_done" => race_kept[1] = race_kept[2]

\* A finding of the report that names the race and the candidate of the row
FindingAbout(row) ==
    \E p \in 1..Len(problems_found) :
        /\ problems_found[p][1] \notin {"Row mismatch", "Row columns"}
        /\ problems_found[p][2] = Lower(row[1])
        /\ problems_found[p][3] = row[2]

\* C17: for a row of a statewide race (president, governor, U.S. senator) in
\* which fewer than half of all precincts report nonzero votes, the validator
\* adds an informational finding to the report.
C17_LowCoverageReported ==
    pc \in {"merge_save", "merge_done"} =>
        \A i \in 1..Len(merged_data) :
            (/\ StatewideRow(merged_data[i])
             /\ 2 * Cardinality(NonzeroCells(merged_data[i])) < total_precincts)
            => FindingAbout(merged_data[i])

\* The report holds a shape finding for merged row i (1-based).
ShapeFinding(i) ==
    \E p \in 1..Len(problems_found) :
        /\ problems_found[p][1] = "Row columns"
        /\ problems_found[p][2] = i + 1

\* The positions of the precinct columns in the header of a cleaned file:
\* the cells that hold text other than a metadata name
CleanedPrecinctCols(header) ==
    {c \in 1..Len(header) :
        /\ header[c] # NoneStr
        /\ header[c] # <<>>
        /\ Strip(header[c]) \notin metadata_cols}

\* The precinct columns of the cleaned files 1..f, summed
RECURSIVE PrecinctColumnsUpTo(_)
PrecinctColumnsUpTo(f) ==
    IF f = 0 THEN 0
    ELSE PrecinctColumnsUpTo(f - 1)
         + Cardinality(CleanedPrecinctCols(county_files[f].sheet[1]))

\* C18: the shape check records a structural finding for a merged row if and
\* only if the column count of the row differs from 2 + the number of
\* precinct columns summed over all files; when a later file has fewer data
\* rows than the first file each trailing row it did not extend has a
\* finding, and when all files have the same number of rows there is none.
C18_ShapeFindings ==
    pc \in {"merge_save", "merge_done"} =>
        LET expected == 2 + PrecinctColumnsUpTo(Len(county_files))
            rows(f) == Len(county_files[f].sheet) - 1
        IN  /\ total_precincts = PrecinctColumnsUpTo(Len(county_files))
            /\ \A i \in 1..Len(merged_data) :
                   /\ ShapeFinding(i) <=> Len(merged_data[i]) # expected
                   /\ ShapeFinding(i) =>
                          \E p \in 1..Len(problems_found) :
                              problems_found[p] =
                                  <<"Row columns", i + 1, Len(merged_data[i]),
                                    expected>>
            /\ \A f \in 2..Len(county_files) :
                   (/\ rows(f) < rows(1)
                    /\ CleanedPrecinctCols(county_files[f].sheet[1]) # {})
                   => \A i \in (rows(f) + 1)..rows(1) : ShapeFinding(i)
            /\ (\A f \in 2..Len(county_files) : rows(f) = rows(1))
                   => \A i \in 1..Len(merged_data) : ~ShapeFinding(i)

\* The second of two files has one data row where the first has two: the
\* second merged row has a shape finding, the first has none.
C18_Witness ==
    /\ pc = "merge_done"
    /\ Len(county_files) = 2
    /\ Len(county_files[1].sheet) = 3
    /\ Len(county_files[2].sheet) = 2
    /\ ShapeFinding(2)
    /\ ~ShapeFinding(1)

IsSuspiciousFinding(p) == p[1] = "Suspicious"

\* C19: the report displays at most the first 10 suspicious findings, in the
\* order of the rows, followed by the count of the suspicious findings not
\* displayed; structural findings recorded earlier in the run do not reduce
\* the number of suspicious findings displayed.
C19_SuspiciousDisplayed ==
    pc = "merge_done" =>
        LET suspicious == SelectSeq(problems_found, IsSuspiciousFinding)
            displayed == IF Len(suspicious) > 10 THEN 10 ELSE Len(suspicious)
        IN  /\ SelectSeq(report.shown, IsSuspiciousFinding)
                   = SubSeq(suspicious, 1, displayed)
            /\ report.more = Len(suspicious) - displayed

----------------------------------------------------------------------------
(* Properties of the multi-sheet parser.                                    *)

\* The cells that end the precinct axis: an empty cell, the 'Total:' marker
IsSentinel(val) == val \in {NaN, sTotalMark}

\* The index of the first row from row 3 on whose column-0 cell is a
\* sentinel; the number of rows of the sheet when there is none
AxisEnd(df) ==
    LET sentinels == {row \in 3..(Len(df) - 1) : IsSentinel(iloc(df, row, 0))}
    IN  IF sentinels = {} THEN Len(df)
        ELSE CHOOSE row \in sentinels : \A other \in sentinels : row <= other

\* The row indices 3, 4, ... up to the row before AxisEnd
AxisRows(df) == [j \in 1..(AxisEnd(df) - 3) |-> 2 + j]

\* C20: when the multi-sheet parser handles a sheet that has a race title, the
\* precinct rows it collects are exactly the consecutive row indices from 3 up
\* to the row before the first column-0 cell that is empty or equals 'Total:'
\* (the end of the sheet when there is no such cell), in sheet order, with the
\* labels of those rows; every record the sheet adds is of one of those
\* labels, and a sheet whose row 3 is such a cell adds no record.
C20_PrecinctAxis ==
    [][(pc = "sheets_loop" /\ sheet_index < Len(data_sheets)
        /\ ~isna(iloc(data_sheets[sheet_index + 1].df, 0, 0)))
       => LET df == data_sheets[sheet_index + 1].df
              labels == [j \in 1..Len(AxisRows(df)) |->
                            iloc(df, AxisRows(df)[j], 0)]
          IN  /\ precinct_rows' = AxisRows(df)
              /\ precinct_names' = labels
              /\ Len(all_races') >= Len(all_races)
              /\ SubSeq(all_races', 1, Len(all_races)) = all_races
              /\ \A k \in (Len(all_races) + 1)..Len(all_races') :
                     \E j \in 1..Len(labels) :
                         all_races'[k].PrecinctName
                             = workbook.county \o sHyphen \o labels[j]
              /\ AxisRows(df) = <<>> => all_races' = all_races]_vars

\* A sheet with the rows '1', 'Total:', '2' has been parsed: row 3 alone was
\* collected and the sheet gave records
C20_Witness ==
    /\ pc = "sheets_loop"
    /\ sheet_index = Len(data_sheets)
    /\ sheet_index > 0
    /\ LET df == data_sheets[sheet_index].df
       IN  /\ ~isna(iloc(df, 0, 0))
           /\ Len(df) = 6
           /\ iloc(df, 3, 0) = <<"1">>
           /\ iloc(df, 4, 0) = sTotalMark
           /\ iloc(df, 5, 0) = <<"2">>
    /\ precinct_rows = <<3>>
    /\ \E k \in 1..Len(all_races) :
           all_races[k].PrecinctName = cAdair \o sHyphen \o <<"1">>

\* The columns right of column 0 that name a candidate in row 1
NamedColumns(df) == {c \in 1..(Width(df) - 1) : ~isna(iloc(df, 1, c))}

\* The columns of the five-column window of column c, within the sheet,
\* whose row-2 label is 'Total Votes' or 'Total'
WindowTotals(df, c) ==
    {t \in c..(c + 4) :
        /\ t < Width(df)
        /\ iloc(df, 2, t) \in {sTotalVotes, hTotalNoBlank}}

\* The candidate named at column c is among the candidates recorded
RecordedName(df, c, recorded) ==
    \E k \in 1..Len(recorded) : recorded[k] = iloc(df, 1, c)

\* The sheet the parser is about to handle has a title and a precinct row,
\* and names each of its candidates once
ScannedSheet ==
    /\ pc = "sheets_loop"
    /\ sheet_index < Len(data_sheets)
    /\ LET df == data_sheets[sheet_index + 1].df
       IN  /\ ~isna(iloc(df, 0, 0))
           /\ Len(df) > 3
           /\ ~IsSentinel(iloc(df, 3, 0))
           /\ \A c, d \in NamedColumns(df) :
                  iloc(df, 1, c) = iloc(df, 1, d) => c = d

\* C21: when the multi-sheet parser handles a sheet, each candidate it records
\* is named in row 1 at a column c with a row-2 label 'Total Votes' or 'Total'
\* among the columns c..c+4 of the sheet, and the vote column recorded for it
\* is the first such column; a candidate named at a column whose window has
\* no such label is not recorded and no record of the sheet is of it; and the
\* scan goes on past such candidates: a candidate with such a label in its
\* window is recorded when every candidate named before it has none.
C21_CandidateWindow ==
    [][ScannedSheet
       => LET df == data_sheets[sheet_index + 1].df
          IN  /\ Len(candidate_cols') = Len(candidates')
              /\ \A k \in 1..Len(candidates') :
                     \E c \in NamedColumns(df) :
                         /\ iloc(df, 1, c) = candidates'[k]
                         /\ WindowTotals(df, c) # {}
                         /\ candidate_cols'[k] \in WindowTotals(df, c)
                         /\ \A t \in WindowTotals(df, c) :
                                candidate_cols'[k] <= t
              /\ \A c \in NamedColumns(df) :
                     WindowTotals(df, c) = {}
                     => /\ ~RecordedName(df, c, candidates')
                        /\ \A k \in (Len(all_races) + 1)..Len(all_races') :
                               all_races'[k].CandidateName # iloc(df, 1, c)
              /\ \A c \in NamedColumns(df) :
                     (/\ WindowTotals(df, c) # {}
                      /\ \A b \in NamedColumns(df) :
                             b < c => WindowTotals(df, b) = {})
                     => RecordedName(df, c, candidates')]_vars

\* A sheet has been parsed whose candidate of column 1 has no total label in
\* columns 1..5 and whose candidate of column 6 has one: the latter alone is
\* recorded
C21_Witness ==
    /\ pc = "sheets_loop"
    /\ sheet_index = Len(data_sheets)
    /\ sheet_index > 0
    /\ LET df == data_sheets[sheet_index].df
       IN  /\ Width(df) = 7
           /\ NamedColumns(df) = {1, 6}
           /\ WindowTotals(df, 1) = {}
           /\ WindowTotals(df, 6) = {6}
           /\ candidates = <<iloc(df, 1, 6)>>
    /\ candidate_cols = <<6>>
    /\ Len(all_races) = 2

\* A cell that holds a number
IsNumeric(cell) == Len(cell) = 2 /\ cell[1] = "num"

\* The votes the record of a cell is to carry: the number of the cell, zero
\* for an empty cell and for a cell that holds no number
VotesOfCell(cell) == IF IsNumeric(cell) THEN cell ELSE Num(0)

\* C22: when the multi-sheet parser handles a sheet that has a race title, the
\* sheet adds one record for each recorded candidate and each collected
\* precinct row, keyed '<County>-<PrecinctLabel>', and the votes of the record
\* are the cell at (precinct row, vote column) when the cell is numeric and
\* zero when the cell is missing or holds a text.
C22_OneRecordPerCell ==
    [][(pc = "sheets_loop" /\ sheet_index < Len(data_sheets)
        /\ ~isna(iloc(data_sheets[sheet_index + 1].df, 0, 0)))
       => LET df == data_sheets[sheet_index + 1].df
              added == SubSeq(all_races', Len(all_races) + 1, Len(all_races'))
          IN  /\ Len(added) = Len(candidates') * Len(precinct_rows')
              /\ \A k \in 1..Len(candidates'), j \in 1..Len(precinct_rows') :
                     \E i \in 1..Len(added) :
                         /\ added[i].CandidateName = candidates'[k]
                         /\ added[i].PrecinctName
                                = workbook.county \o sHyphen
                                  \o iloc(df, precinct_rows'[j], 0)
                         /\ added[i].Votes
                                = VotesOfCell(iloc(df, precinct_rows'[j],
                                                   candidate_cols'[k]))]_vars

\* The columns the candidate named at column c owns: from c up to the column
\* before the next name of row 1
OwnedColumns(df, c) ==
    {t \in c..(Width(df) - 1) : \A d \in NamedColumns(df) : d > c => t < d}

\* C23: when the multi-sheet parser handles a sheet, the vote column recorded
\* for a candidate is one of the columns the candidate owns (at or after its
\* name column and before the name column of the next candidate of row 1),
\* and every named candidate with a 'Total Votes' or 'Total' label among the
\* columns of its window that it owns is recorded.
C23_VoteColumnOwned ==
    [][ScannedSheet
       => LET df == data_sheets[sheet_index + 1].df
          IN  /\ \A k \in 1..Len(candidates') :
                     \E c \in NamedColumns(df) :
                         /\ iloc(df, 1, c) = candidates'[k]
                         /\ candidate_cols'[k] \in OwnedColumns(df, c)
              /\ \A c \in NamedColumns(df) :
                     WindowTotals(df, c) \cap OwnedColumns(df, c) # {}
                     => RecordedName(df, c, candidates')]_vars

\* C24: the table the key-based merge writes has exactly one row for each
\* distinct (RaceTitle, CandidateName) key of the per-county tables, also
\* when a table holds the same key on more than one row.
C24_OneRowPerKey ==
    pc = "team_done" =>
        /\ Len(saved_file) - 1
               = Cardinality(UNION {KeySetOf(all_data[t]) :
                                       t \in 1..Len(all_data)})
        /\ AllDistinct(KeysOf(saved_file))

----------------------------------------------------------------------------
(* Properties of the export script.                                         *)

\* The rows of the race the script read, and those of one precinct
ExportRows == senate_of(database_of(saved_file))

PrecinctRows(shp_idx) == SelectSeq(ExportRows, LAMBDA r : r.shp_idx = shp_idx)

\* C25: every share the export script computes is guarded against a zero
\* denominator: the share of a precinct without votes is 0.0, the two-party
\* share of a precinct without Republican and Democratic votes is 0.0, and
\* the share of each candidate of a race without any vote is 0.0.
C25_SharesGuarded ==
    pc = "export_done" =>
        /\ \A entry \in precinct_rshare :
               /\ entry.total_votes = 0 => entry.r_share = 0
               /\ votes_sum(of_party(PrecinctRows(entry.shp_idx), "Republican"))
                  + votes_sum(of_party(PrecinctRows(entry.shp_idx), "Democratic"))
                      = 0
                  => entry.r_twoparty = 0
        /\ votes_sum(results_district) = 0
           => \A i \in 1..Len(results_district) : results_district[i].share = 0

====
